---------------------------- MODULE Spec2Model ----------------------------
(***************************************************************************)
(* Model of the asynchronous GPU upload pipeline of okami-d3d12:           *)
(* GpuUploaderImpl (src/d3d12_upload.cpp), the GpuUploaderTask contract    *)
(* (src/d3d12_upload.hpp) and the texture manager that consumes it         *)
(* (src/d3d12_texture.cpp).                                                *)
(***************************************************************************)
EXTENDS Integers, Sequences, FiniteSets, TLC

(***************************************************************************)
(* Bounds of the model.                                                    *)
(***************************************************************************)
NumTasks == 3
MaxFrames == 2
\* Largest capacity of the descriptor pool under Alloc and Free.
MaxCount == 5
\* Number of calls of Stop.
MaxStops == 2
\* Number of entities created in the entity tree.
MaxEntities == 3
\* Number of GetNextSize calls on a Sizer.
MaxCalls == 30
\* The largest size requested from a Sizer.
MaxRequest == 300
\* Number of times the size requested from a Sizer changes from one call to
\* the next.
MaxSwitches == 2
\* Number of GpuUploaderCommandListLock objects the consumer has at a time.
MaxLocks == 3
\* Number of batches closed for a GpuUploaderResources.
MaxClosed == 3
\* Number of locks GetExecutableCommandListIfAny hands out.
MaxGets == 4
\* Number of frames rendered before the first texture is created.
MaxIdleFrames == 150
\* Number of failing Alloc calls after the pool is exhausted.
MaxOverrun == 2

(***************************************************************************)
(* Program constants.                                                      *)
(***************************************************************************)
BATCH_COUNT == 2
kMinPoolSize == 128
SizeDecayPercent == 95
ExpandFactor == 2

\* m_weightedSize is a double: the model keeps it in thousandths.
WeightScale == 10 * 10 * 10

None == -1
Garbage == -2

Tasks == 1..NumTasks

\* Entity ids: the root, and the ids CreateEntity can hand out.
kRoot == 0
kNullEntity == -1
Entities == 0..MaxEntities
Slots == 0..(BATCH_COUNT - 1)

\* The tasks of a run that closes one batch more than m_batches has slots
\* and then submits once more.
RunTasks == 1..(BATCH_COUNT + 2)

\* Every task any of the specifications submits.
AllTasks == Tasks \cup RunTasks

Ok == "ok"
Err == "error"

VARIABLES
    m_shouldExit,          \* std::atomic<bool> m_shouldExit
    m_currentWriteIndex,   \* std::atomic<UINT64> m_currentWriteIndex
    m_currentReadIndex,    \* std::atomic<UINT64> m_currentReadIndex
    m_batches,             \* std::vector<Batch>: slot -> [m_fenceValue, open]
    m_taskQueue,           \* submitted, not yet dequeued tasks
    m_tasksNeedFinalize,   \* executed tasks handed to the main thread
    m_tasksOnGpu,          \* main thread FIFO of tasks awaiting their fence
    completedValue,        \* m_fence->GetCompletedValue()
    task,                  \* task id -> fields of GpuUploaderTask and its history
    worker,                \* the worker thread: pc and locals of ThreadFunc
    main,                  \* the main thread: pc, held command list, joinable
    copyQueue,             \* command lists and signals submitted to the copy queue
    returned,              \* history: results of successful GetExecutableCommandListIfAny
    finalizeOrder,         \* history: tasks in the order Finalize ran
    executeOrder,          \* history: tasks in the order Execute ran
    closed,                \* history: fence value stamped on each closed batch
    crashed,               \* the process has died (invalid access, uncaught exception)
    m_texturesById,        \* TextureManager: resource id -> Resource<Texture>
    m_texturesToTransition,\* TextureManager: ids awaiting their barrier and view
    m_srvDescriptorPool,   \* TextureManager: the descriptor pool of the views
    m_sizer,               \* TextureManager: the Sizer of the descriptor pool
    frames,                \* number of frames rendered (TransitionTextures calls)
    idleFrames,            \* number of frames rendered before any texture existed
    m_taskMutex,           \* std::mutex m_taskMutex: "free" or its holder
    queuedAtStop,          \* history: the tasks in m_taskQueue when Stop set the flag
    stops,                 \* history: number of Stop calls that have returned
    m_imguiHeap,           \* a DescriptorPool used through Alloc and Free
    liveHandles,           \* history: handles issued by m_imguiHeap and not freed
    lastCall,              \* history: the last call on m_imguiHeap and its result
    poolBefore,            \* history: m_imguiHeap as the last call found it
    sizerState,            \* a Sizer used through Reset and GetNextSize
    sizerCall,             \* history: the last GetNextSize call on sizerState and its result
    m_entities,            \* EntityTreeImpl: entity id -> EntityTreeNode, or absent
    m_nextEntityId,        \* EntityTreeImpl: the id CreateEntity hands out next
    treeCall,              \* history: the last call on the entity tree and its signal
    fetchReturn,           \* history: what the last FetchAndFinalizeTasks call returned
    resources,             \* a GpuUploaderResources: its indices and batches
    locks,                 \* the consumer's GpuUploaderCommandListLock objects
    obtained               \* history: fence values of the locks GetExecutableCommandListIfAny returned

uploaderVars == <<m_shouldExit, m_currentWriteIndex, m_currentReadIndex, m_batches,
                  m_taskQueue, m_tasksNeedFinalize, m_tasksOnGpu, completedValue,
                  task, worker, main, copyQueue, returned, finalizeOrder,
                  executeOrder, closed, crashed>>

textureVars == <<m_texturesById, m_texturesToTransition, m_srvDescriptorPool,
                 m_sizer, frames, idleFrames>>

stopVars == <<m_taskMutex, queuedAtStop, stops>>

poolVars == <<m_imguiHeap, liveHandles, lastCall, poolBefore>>

sizerVars == <<sizerState, sizerCall>>

treeVars == <<m_entities, m_nextEntityId, treeCall>>

fetchVars == <<fetchReturn>>

lockVars == <<resources, locks, obtained>>

otherVars == <<sizerVars, treeVars, fetchVars, lockVars>>

restVars == <<stopVars, poolVars, otherVars>>

vars == <<uploaderVars, textureVars, stopVars, poolVars, otherVars>>

-----------------------------------------------------------------------------
(***************************************************************************)
(* State after GpuUploader::Create: two closed batches without a fence     *)
(* value, fence at 0, worker thread started at the top of ThreadFunc.      *)
(***************************************************************************)
NewTask == [state |-> "new", m_fenceValue |-> None, m_result |-> Ok,
            executeResult |-> "none", seenError |-> "none", batch |-> None,
            executed |-> 0, enqueued |-> 0, finalized |-> 0]

\* No command list: the empty std::optional<GpuUploaderCommandList>.
NoList == [slot |-> None, fence |-> None]

UploaderInit ==
    /\ m_shouldExit = FALSE
    /\ m_currentWriteIndex = 0
    /\ m_currentReadIndex = 0
    /\ m_batches = [s \in Slots |-> [m_fenceValue |-> None, open |-> FALSE]]
    /\ m_taskQueue = <<>>
    /\ m_tasksNeedFinalize = <<>>
    /\ m_tasksOnGpu = <<>>
    /\ completedValue = 0
    /\ task = [t \in AllTasks |-> NewTask]
    /\ worker = [pc |-> "top", currentIndex |-> 0, fenceValue |-> 0, task |-> None]
    /\ main = [pc |-> "idle", held |-> NoList, joinable |-> TRUE]
    /\ copyQueue = <<>>
    /\ returned = <<>>
    /\ finalizeOrder = <<>>
    /\ executeOrder = <<>>
    /\ closed = <<>>
    /\ crashed = FALSE

\* GpuUploaderImpl::GetBatch: the ring slot of a batch index.
GetBatch(index) == index % BATCH_COUNT


\* The fence value of the batch with index currentIndex.
BatchFenceValue(currentIndex) == currentIndex + 1

-----------------------------------------------------------------------------
(***************************************************************************)
(* GpuUploaderImpl::ThreadFunc, one action per step of the worker.         *)
(***************************************************************************)

\* Head of the outer loop: leave when exit was requested, otherwise pick the
\* batch at the write index and reset its allocator and command list.
WorkerBeginBatch ==
    /\ ~crashed
    /\ worker.pc = "top"
    /\ IF m_shouldExit
         THEN /\ worker' = [worker EXCEPT !.pc = "exited"]
              /\ UNCHANGED m_batches
         ELSE /\ worker' = [worker EXCEPT !.pc = "loop",
                                          !.currentIndex = m_currentWriteIndex,
                                          !.fenceValue =
                                              BatchFenceValue(m_currentWriteIndex)]
              /\ m_batches' = [m_batches EXCEPT
                                 ![GetBatch(m_currentWriteIndex)].open = TRUE]
    /\ UNCHANGED <<m_shouldExit, m_currentWriteIndex, m_currentReadIndex,
                   m_taskQueue, m_tasksNeedFinalize, m_tasksOnGpu, completedValue,
                   task, main, copyQueue, returned, finalizeOrder, executeOrder,
                   closed, crashed>>

\* The task the worker takes from the queue, and the queue it leaves.
TakeTask ==
    /\ worker' = [worker EXCEPT !.pc = "exec", !.task = Head(m_taskQueue)]
    /\ m_taskQueue' = Tail(m_taskQueue)
    /\ task' = [task EXCEPT ![Head(m_taskQueue)].state = "dequeued"]

\* Head of the inner loop: exit check, then the non-blocking try_dequeue;
\* with an empty queue the worker goes to wait on the condition variable.
WorkerDequeue ==
    /\ ~crashed
    /\ worker.pc = "loop"
    /\ IF m_shouldExit
         THEN /\ worker' = [worker EXCEPT !.pc = "close"]
              /\ UNCHANGED <<m_taskQueue, task>>
         ELSE IF m_taskQueue # <<>>
         THEN TakeTask
         ELSE /\ worker' = [worker EXCEPT !.pc = "wait"]
              /\ UNCHANGED <<m_taskQueue, task>>
    /\ UNCHANGED <<m_shouldExit, m_currentWriteIndex, m_currentReadIndex,
                   m_batches, m_tasksNeedFinalize, m_tasksOnGpu, completedValue,
                   main, copyQueue, returned, finalizeOrder, executeOrder, closed, crashed>>

\* m_taskCondition.wait returns once exit is requested or a task is queued.
WorkerWake ==
    /\ ~crashed
    /\ worker.pc = "wait"
    /\ m_shouldExit \/ m_taskQueue # <<>>
    /\ IF m_shouldExit
         THEN /\ worker' = [worker EXCEPT !.pc = "close"]
              /\ UNCHANGED <<m_taskQueue, task>>
         ELSE TakeTask
    /\ UNCHANGED <<m_shouldExit, m_currentWriteIndex, m_currentReadIndex,
                   m_batches, m_tasksNeedFinalize, m_tasksOnGpu, completedValue,
                   main, copyQueue, returned, finalizeOrder, executeOrder, closed, crashed>>

\* task->m_fenceValue = fenceValue; Execute starts recording into the batch.
WorkerExecuteBegin ==
    /\ ~crashed
    /\ worker.pc = "exec"
    /\ task' = [task EXCEPT ![worker.task].m_fenceValue = worker.fenceValue,
                            ![worker.task].batch = worker.currentIndex,
                            ![worker.task].state = "executing",
                            ![worker.task].executed = @ + 1]
    /\ executeOrder' = Append(executeOrder, worker.task)
    /\ worker' = [worker EXCEPT !.pc = "executing"]
    /\ UNCHANGED <<m_shouldExit, m_currentWriteIndex, m_currentReadIndex,
                   m_batches, m_taskQueue, m_tasksNeedFinalize, m_tasksOnGpu,
                   completedValue, main, copyQueue, returned, finalizeOrder,
                   closed, crashed>>

\* What the worker stores in the task when Execute has returned r: the
\* return value of Execute is discarded, m_result keeps its initial value.
StoreResult(old, r) == old

\* Execute returns (with success or with an error) and the task is put on
\* the awaiting-finalize queue.
WorkerExecuteEnd ==
    /\ ~crashed
    /\ worker.pc = "executing"
    /\ \E r \in {Ok, Err} :
          task' = [task EXCEPT ![worker.task].executeResult = r,
                               ![worker.task].m_result = StoreResult(@, r),
                               ![worker.task].state = "executed",
                               ![worker.task].enqueued = @ + 1]
    /\ m_tasksNeedFinalize' = Append(m_tasksNeedFinalize, worker.task)
    /\ worker' = [worker EXCEPT !.pc = "decide", !.task = None]
    /\ UNCHANGED <<m_shouldExit, m_currentWriteIndex, m_currentReadIndex,
                   m_batches, m_taskQueue, m_tasksOnGpu, completedValue, main,
                   copyQueue, returned, finalizeOrder, executeOrder, closed, crashed>>

\* Mutation: the batch is closed after every task.
MoveToNextBatchAlways(currentIndex, readIndex, completed, batches) == TRUE

\* The moveToNextBatch lambda.
MoveToNextBatch(currentIndex, readIndex, completed, batches) ==
    LET nextBatch == batches[GetBatch(currentIndex + 1)]
    IN  IF nextBatch.m_fenceValue # None /\ nextBatch.m_fenceValue < completed
        THEN FALSE
        ELSE IF readIndex < currentIndex
        THEN FALSE
        ELSE TRUE

\* After each executed task: roll over to the next batch or keep recording.
WorkerDecide ==
    /\ ~crashed
    /\ worker.pc = "decide"
    /\ worker' = [worker EXCEPT !.pc =
                     IF MoveToNextBatch(worker.currentIndex, m_currentReadIndex,
                                        completedValue, m_batches)
                     THEN "close" ELSE "loop"]
    /\ UNCHANGED <<m_shouldExit, m_currentWriteIndex, m_currentReadIndex,
                   m_batches, m_taskQueue, m_tasksNeedFinalize, m_tasksOnGpu,
                   completedValue, task, main, copyQueue, returned, finalizeOrder,
                   executeOrder, closed, crashed>>

\* Mutation: the batch is stamped with the fence value after the one its
\* tasks carry.
BatchStampNext(fenceValue) == fenceValue + 1

\* batch.m_fenceValue = fenceValue: the value the tasks of the batch carry.
BatchStamp(fenceValue) == fenceValue

\* Close the command list, stamp the batch, advance the write index.
WorkerCloseBatch ==
    /\ ~crashed
    /\ worker.pc = "close"
    /\ m_batches' = [m_batches EXCEPT
                       ![GetBatch(worker.currentIndex)] =
                           [m_fenceValue |-> BatchStamp(worker.fenceValue),
                            open |-> FALSE]]
    /\ m_currentWriteIndex' = m_currentWriteIndex + 1
    /\ closed' = Append(closed, BatchStamp(worker.fenceValue))
    /\ worker' = [worker EXCEPT !.pc = "top"]
    /\ UNCHANGED <<m_shouldExit, m_currentReadIndex, m_taskQueue,
                   m_tasksNeedFinalize, m_tasksOnGpu, completedValue, task, main,
                   copyQueue, returned, finalizeOrder, executeOrder, crashed>>

-----------------------------------------------------------------------------
(***************************************************************************)
(* TextureManager (src/d3d12_texture.cpp).  The resource of task t has     *)
(* resource id t.  m_data is "none" in a new resource, "uploaded" when it  *)
(* holds the info and private data a successful Execute produced, and      *)
(* "empty" when it holds the resource of a task whose Execute failed.      *)
(***************************************************************************)
NewTexture == [exists |-> FALSE, m_loaded |-> FALSE, m_data |-> "none",
               dataWrites |-> 0, m_handle |-> None, handleWrites |-> 0]

\* DescriptorPool::Create with descriptorCount descriptors.
NewPool(descriptorCount) ==
    [m_count |-> descriptorCount, m_freeBlockStart |-> 0, m_freeIndices |-> {}]

\* Sizer::Reset
SizerReset(size) == [m_currentSize |-> size, m_weightedSize |-> size * WeightScale]

TextureInit ==
    /\ m_texturesById = [t \in AllTasks |-> NewTexture]
    /\ m_texturesToTransition = <<>>
    /\ m_srvDescriptorPool = NewPool(kMinPoolSize)
    /\ m_sizer = SizerReset(kMinPoolSize)
    /\ frames = 0
    /\ idleFrames = 0

\* The worker does not hold the mutex and Stop has not been called.
StopInit ==
    /\ m_taskMutex = "free"
    /\ queuedAtStop = {}
    /\ stops = 0

\* A pool that nothing has been allocated from.
NoCall == [op |-> "none", handle |-> None]

PoolInit(descriptorCount) ==
    /\ m_imguiHeap = NewPool(descriptorCount)
    /\ liveHandles = {}
    /\ lastCall = NoCall
    /\ poolBefore = NewPool(descriptorCount)

\* A Sizer after Reset(size), before any GetNextSize call.
NoSizerCall == [calls |-> 0, switches |-> 0, requested |-> None, size |-> None]

SizerInit(size) ==
    /\ sizerState = SizerReset(size)
    /\ sizerCall = NoSizerCall

\* EntityTreeNode as constructed for the entity id.
NewNode(id) == [exists |-> TRUE, m_entityId |-> id, m_parent |-> kNullEntity,
                m_firstChild |-> kNullEntity, m_lastChild |-> kNullEntity,
                m_nextSibling |-> kNullEntity, m_previousSibling |-> kNullEntity]

\* An id that m_entities.find does not find.
NoNode == [NewNode(kNullEntity) EXCEPT !.exists = FALSE]

NoTreeCall == [op |-> "none", entity |-> kNullEntity, parent |-> kNullEntity,
               thrown |-> FALSE, signals |-> <<>>]

\* EntityTreeImpl(): the root is the only entity.
TreeInit ==
    /\ m_entities = [e \in Entities |-> IF e = kRoot THEN NewNode(kRoot) ELSE NoNode]
    /\ m_nextEntityId = 1
    /\ treeCall = NoTreeCall

\* An object that is not a lock, and a lock as its constructor makes it.
NoLock == [alive |-> FALSE, m_resources |-> FALSE, m_fenceValue |-> None]
NewLock(fenceValue) == [alive |-> TRUE, m_resources |-> TRUE, m_fenceValue |-> fenceValue]

\* GpuUploaderResources::Create: both indices 0, BATCH_COUNT batches without
\* a fence value; the consumer holds no lock.
ResourcesInit ==
    /\ resources = [m_currentReadIndex |-> 0, m_currentWriteIndex |-> 0,
                    m_batches |-> [s \in Slots |-> None]]
    /\ locks = [l \in 1..MaxLocks |-> NoLock]
    /\ obtained = <<>>

OtherInit ==
    /\ SizerInit(kMinPoolSize)
    /\ TreeInit
    /\ fetchReturn = None
    /\ ResourcesInit

Init == UploaderInit /\ TextureInit /\ StopInit /\ PoolInit(0) /\ OtherInit

\* TextureManager::NewResource: a new, not yet loaded resource in the map.
NewResource(t) ==
    m_texturesById' = [m_texturesById EXCEPT ![t].exists = TRUE]

\* The data TextureLoadTask::Finalize moves into the manager: m_resource is
\* filled in only on the successful path of Execute.
TaskResource(t) == IF task[t].executeResult = Ok THEN "uploaded" ELSE "empty"

\* Whether TextureManager::Finalize stores true into m_loaded.
StoresLoaded(error) == TRUE

\* TextureManager::Finalize on the resource: move the data in, set m_loaded.
FinalizeResource(tex, data, error) ==
    [tex EXCEPT !.m_data = data,
                !.dataWrites = @ + 1,
                !.m_loaded = IF StoresLoaded(error) THEN TRUE ELSE @]

\* TextureManager::Finalize: whether the resource is queued for transition.
NeedsTransition(error) == error = Ok

\* DescriptorPool::TryAlloc: the smallest freed index, else the next index
\* of the free block, else nothing.
TryAlloc(pool) ==
    IF pool.m_freeIndices # {}
    THEN LET h == CHOOSE x \in pool.m_freeIndices :
                    \A y \in pool.m_freeIndices : x <= y
         IN  [handle |-> h,
              pool |-> [pool EXCEPT !.m_freeIndices = @ \ {h}]]
    ELSE IF pool.m_freeBlockStart < pool.m_count
    THEN [handle |-> pool.m_freeBlockStart,
          pool |-> [pool EXCEPT !.m_freeBlockStart = @ + 1]]
    ELSE [handle |-> None, pool |-> pool]

\* Mutation: publishing the view moves the private data out of the resource.
PublishHandleMovesData(tex, handle) ==
    [tex EXCEPT !.m_handle = handle, !.handleWrites = @ + 1, !.m_data = "empty"]

\* privateData.m_handle = *handle
PublishHandle(tex, handle) ==
    [tex EXCEPT !.m_handle = handle, !.handleWrites = @ + 1]

\* The while loop of TransitionTextures over the queued ids.  The any_cast
\* of a resource without private data throws std::bad_any_cast.
RECURSIVE TransitionLoop(_, _, _)
TransitionLoop(queue, textures, pool) ==
    IF queue = <<>>
    THEN [textures |-> textures, pool |-> pool, thrown |-> FALSE]
    ELSE LET id == Head(queue)
         IN  IF textures[id].m_data # "uploaded"
             THEN [textures |-> textures, pool |-> pool, thrown |-> TRUE]
             ELSE LET a == TryAlloc(pool)
                  IN  IF a.handle = None
                      THEN TransitionLoop(Tail(queue), textures, a.pool)
                      ELSE TransitionLoop(Tail(queue),
                               [textures EXCEPT ![id] = PublishHandle(@, a.handle)],
                               a.pool)

\* Sizer::GetNextSize: the new sizer and the size it reports (None: no change).
GetNextSize(sizer, requestedSize) ==
    LET weighted == ((100 - SizeDecayPercent) * requestedSize * WeightScale
                     + SizeDecayPercent * sizer.m_weightedSize) \div 100
        next == (weighted * ExpandFactor) \div WeightScale
    IN  IF requestedSize >= sizer.m_currentSize
        THEN [sizer |-> SizerReset(next), size |-> next]
        ELSE IF weighted * ExpandFactor * ExpandFactor
                  <= sizer.m_currentSize * WeightScale
        THEN [sizer |-> SizerReset(next), size |-> next]
        ELSE [sizer |-> [sizer EXCEPT !.m_weightedSize = weighted],
              size |-> None]

\* The orders in which a std::unordered_map may iterate over the ids.
Orders(ids) ==
    {o \in [1..Cardinality(ids) -> ids] :
        \A i, j \in 1..Cardinality(ids) : o[i] = o[j] => i = j}

\* The for loop of RegenerateSRVs over the resources of the map, in the
\* order the map iterates.
RECURSIVE RegenerateLoop(_, _, _)
RegenerateLoop(order, textures, pool) ==
    IF Len(order) = 0
    THEN [textures |-> textures, pool |-> pool, thrown |-> FALSE]
    ELSE LET id == Head(order)
             a  == TryAlloc(pool)
         IN  IF a.handle = None
             THEN RegenerateLoop(Tail(order), textures, a.pool)
             ELSE IF textures[id].m_data # "uploaded"
             THEN [textures |-> textures, pool |-> a.pool, thrown |-> TRUE]
             ELSE RegenerateLoop(Tail(order),
                      [textures EXCEPT ![id] = PublishHandle(@, a.handle)],
                      a.pool)

\* TextureManager::RegenerateSRVs: a heap of no descriptors cannot be
\* created, the manager is then left with a default-constructed pool.
RegenerateSRVs(textures, poolSize, order) ==
    IF poolSize = 0
    THEN [textures |-> textures, pool |-> NewPool(0), thrown |-> FALSE]
    ELSE RegenerateLoop(order, textures, NewPool(poolSize))

\* TextureManager::TransitionTextures, called once per rendered frame.
TransitionTexturesCall ==
    /\ ~crashed
    /\ main.pc = "idle"
    /\ main.held = NoList
    /\ LET r == TransitionLoop(m_texturesToTransition, m_texturesById,
                               m_srvDescriptorPool)
           n == GetNextSize(m_sizer, Cardinality({t \in Tasks :
                                                   m_texturesById[t].exists}))
       IN  IF r.thrown
           THEN /\ crashed' = TRUE
                /\ UNCHANGED <<m_texturesById, m_texturesToTransition,
                               m_srvDescriptorPool, m_sizer>>
           ELSE IF n.size = None
           THEN /\ m_texturesToTransition' = <<>>
                /\ m_sizer' = n.sizer
                /\ m_texturesById' = r.textures
                /\ m_srvDescriptorPool' = r.pool
                /\ crashed' = FALSE
           ELSE \E order \in Orders({t \in Tasks : m_texturesById[t].exists}) :
                  LET g == RegenerateSRVs(r.textures, n.size, order)
                  IN  /\ m_texturesToTransition' = <<>>
                      /\ m_sizer' = n.sizer
                      /\ m_texturesById' = g.textures
                      /\ m_srvDescriptorPool' = g.pool
                      /\ crashed' = g.thrown
    /\ UNCHANGED <<m_shouldExit, m_currentWriteIndex, m_currentReadIndex,
                   m_batches, m_taskQueue, m_tasksNeedFinalize, m_tasksOnGpu,
                   completedValue, task, worker, main, copyQueue, returned,
                   finalizeOrder, executeOrder, closed>>

\* A frame: D3D12Renderer::Render calls TransitionTextures once.
TransitionTextures ==
    /\ frames < MaxFrames
    /\ frames' = frames + 1
    /\ TransitionTexturesCall
    /\ UNCHANGED idleFrames

\* A frame rendered before the application has created its first texture.
IdleFrame ==
    /\ \A t \in Tasks : ~m_texturesById[t].exists
    /\ idleFrames < MaxIdleFrames
    /\ idleFrames' = idleFrames + 1
    /\ TransitionTexturesCall
    /\ UNCHANGED frames

-----------------------------------------------------------------------------
(***************************************************************************)
(* DescriptorPool (src/d3d12_descriptor_pool.cpp): Alloc and Free on a     *)
(* pool of m_count descriptors.  An Alloc that throws leaves the pool as   *)
(* the throwing call left it; the caller may catch the exception.          *)
(***************************************************************************)
MinOf(S) == CHOOSE x \in S : \A y \in S : x <= y
MaxOf(S) == CHOOSE x \in S : \A y \in S : y <= x

\* Mutation: the set of freed indices is served from its upper end.
AllocFreedLargest(freeIndices) == MaxOf(freeIndices)

\* The index Alloc takes from the set of freed indices: *m_freeIndices.begin()
AllocFreed(freeIndices) == MinOf(freeIndices)

\* DescriptorPool::Alloc: the new pool and the handle returned (None and
\* thrown when the call throws "Descriptor pool exhausted").
Alloc(p) ==
    IF p.m_freeIndices = {}
    THEN LET q == [p EXCEPT !.m_freeBlockStart = @ + 1]
         IN  IF q.m_freeBlockStart >= q.m_count
             THEN [handle |-> None, thrown |-> TRUE, pool |-> q]
             ELSE [handle |-> q.m_freeBlockStart - 1, thrown |-> FALSE, pool |-> q]
    ELSE LET handle == AllocFreed(p.m_freeIndices)
         IN  [handle |-> handle, thrown |-> FALSE,
              pool |-> [p EXCEPT !.m_freeIndices = @ \ {handle}]]

\* Mutation: the free block grows over the largest freed index, which stays
\* in the set.
CompactKeepsIndex(p) ==
    IF p.m_freeIndices # {} /\ MaxOf(p.m_freeIndices) = p.m_freeBlockStart - 1
    THEN [p EXCEPT !.m_freeBlockStart = @ - 1]
    ELSE p

\* Mutation: an if in place of the while, one index is compacted at most.
CompactOnce(p) ==
    IF p.m_freeIndices # {} /\ MaxOf(p.m_freeIndices) = p.m_freeBlockStart - 1
    THEN [p EXCEPT !.m_freeIndices = @ \ {MaxOf(p.m_freeIndices)},
                   !.m_freeBlockStart = @ - 1]
    ELSE p

\* The while loop of DescriptorPool::Free: the largest freed index is erased
\* and the free block grows downwards as long as the two are adjacent.
RECURSIVE Compact(_)
Compact(p) ==
    IF p.m_freeIndices # {} /\ MaxOf(p.m_freeIndices) = p.m_freeBlockStart - 1
    THEN Compact([p EXCEPT !.m_freeIndices = @ \ {MaxOf(p.m_freeIndices)},
                           !.m_freeBlockStart = @ - 1])
    ELSE p

\* Mutation: Free puts the handle into the set and does not compact.
FreeWithoutCompact(p, handle) == [p EXCEPT !.m_freeIndices = @ \cup {handle}]

\* DescriptorPool::Free(Handle)
Free(p, handle) ==
    Compact([p EXCEPT !.m_freeIndices = @ \cup {handle}])

\* A call of Alloc on the pool; the handle it returns is live from then on.
PoolAlloc ==
    /\ \/ m_imguiHeap.m_freeIndices # {}
       \/ m_imguiHeap.m_freeBlockStart < m_imguiHeap.m_count + MaxOverrun
    /\ LET a == Alloc(m_imguiHeap)
       IN  /\ m_imguiHeap' = a.pool
           /\ lastCall' = [op |-> IF a.thrown THEN "throw" ELSE "alloc",
                           handle |-> a.handle]
           /\ poolBefore' = m_imguiHeap
           /\ liveHandles' = IF a.thrown THEN liveHandles
                             ELSE liveHandles \cup {a.handle}

\* A call of Free with a handle that is live.
PoolFree(handle) ==
    /\ handle \in liveHandles
    /\ m_imguiHeap' = Free(m_imguiHeap, handle)
    /\ lastCall' = [op |-> "free", handle |-> handle]
    /\ poolBefore' = m_imguiHeap
    /\ liveHandles' = liveHandles \ {handle}

-----------------------------------------------------------------------------
(***************************************************************************)
(* The public operations, called by producers and by the main thread.      *)
(***************************************************************************)

\* GpuUploaderImpl::SubmitTask: enqueue and kick.  Tasks are submitted in
\* the order of their ids.
SubmitTask(t) ==
    /\ ~crashed
    /\ task[t].state = "new"
    /\ \A u \in Tasks : u < t => task[u].state # "new"
    /\ m_taskQueue' = Append(m_taskQueue, t)
    /\ task' = [task EXCEPT ![t].state = "queued"]
    /\ UNCHANGED <<m_shouldExit, m_currentWriteIndex, m_currentReadIndex,
                   m_batches, m_tasksNeedFinalize, m_tasksOnGpu, completedValue,
                   worker, main, copyQueue, returned, finalizeOrder,
                   executeOrder, closed, crashed>>

\* The element m_batches[index] the consumer reads: the vector has
\* BATCH_COUNT elements and the index is used as it is.
ReadSlot(index) == index

\* Values an out-of-bounds read of a batch's fence value may produce.
GarbageFences == {0, NumTasks + 2}

\* GpuUploaderImpl::GetExecutableCommandListIfAny.  An index beyond the end
\* of m_batches reads memory that is not a batch: the call sees a null
\* command list and returns nothing, or dies, or returns what it found.
GetExecutableCommandListIfAny ==
    /\ ~crashed
    /\ main.pc = "idle"
    /\ main.held = NoList
    /\ IF m_currentReadIndex < m_currentWriteIndex
         THEN LET slot == ReadSlot(m_currentReadIndex)
              IN  IF slot \in Slots
                  THEN LET list == [slot |-> slot,
                                    fence |-> m_batches[slot].m_fenceValue]
                       IN  /\ m_currentReadIndex' = m_currentReadIndex + 1
                           /\ main' = [main EXCEPT !.held = list]
                           /\ returned' = Append(returned, list)
                           /\ UNCHANGED crashed
                  ELSE \/ UNCHANGED <<m_currentReadIndex, returned, main, crashed>>
                       \/ /\ crashed' = TRUE
                          /\ UNCHANGED <<m_currentReadIndex, returned, main>>
                       \/ \E f \in GarbageFences :
                            LET list == [slot |-> Garbage, fence |-> f]
                            IN  /\ m_currentReadIndex' = m_currentReadIndex + 1
                                /\ main' = [main EXCEPT !.held = list]
                                /\ returned' = Append(returned, list)
                                /\ UNCHANGED crashed
         ELSE UNCHANGED <<m_currentReadIndex, returned, main, crashed>>
    /\ UNCHANGED <<m_shouldExit, m_currentWriteIndex, m_batches, m_taskQueue,
                   m_tasksNeedFinalize, m_tasksOnGpu, completedValue, task,
                   worker, copyQueue, finalizeOrder, executeOrder, closed>>

\* The consumer's use of a returned command list: ExecuteCommandLists on the
\* copy queue, then Signal of the fence with the returned fence value.
ExecuteAndSignal ==
    /\ ~crashed
    /\ main.held # NoList
    /\ IF main.held.slot = Garbage
         THEN /\ crashed' = TRUE
              /\ UNCHANGED <<main, copyQueue>>
         ELSE /\ copyQueue' = Append(copyQueue, main.held)
              /\ main' = [main EXCEPT !.held = NoList]
              /\ UNCHANGED crashed
    /\ UNCHANGED <<m_shouldExit, m_currentWriteIndex, m_currentReadIndex,
                   m_batches, m_taskQueue, m_tasksNeedFinalize, m_tasksOnGpu,
                   completedValue, task, worker, returned, finalizeOrder,
                   executeOrder, closed>>

\* Mutation: the fence is signalled with the value after the returned one.
SignalledValueNext(list) == list.fence + 1

\* The value the consumer signals: the fence value of the returned list.
SignalledValue(list) == list.fence

\* The device finishes the oldest submitted command list and its Signal
\* sets the fence to the signalled value.
DeviceComplete ==
    /\ ~crashed
    /\ copyQueue # <<>>
    /\ completedValue' = SignalledValue(Head(copyQueue))
    /\ copyQueue' = Tail(copyQueue)
    /\ UNCHANGED <<m_shouldExit, m_currentWriteIndex, m_currentReadIndex,
                   m_batches, m_taskQueue, m_tasksNeedFinalize, m_tasksOnGpu,
                   task, worker, main, returned, finalizeOrder, executeOrder,
                   closed, crashed>>

\* Mutation: the fence test is off by one and lets a task through early.
FenceReachedEarly(fenceValue, completed) == fenceValue <= completed + 1

\* The fence test of FetchAndFinalizeTasks on the task at the front.
FenceReached(fenceValue, completed) == fenceValue <= completed

\* Mutation: the drained tasks are put in front of the waiting ones.
DrainInFront(onGpu, needFinalize) == needFinalize \o onGpu

\* The first loop of FetchAndFinalizeTasks: the tasks of the awaiting-finalize
\* queue are pushed, in its order, behind the tasks in m_tasksOnGpu.
Drain(onGpu, needFinalize) == onGpu \o needFinalize

\* Number of tasks at the front of q that the while loop of
\* FetchAndFinalizeTasks pops: it stops at the first task not yet reached.
RECURSIVE ReadyCount(_, _)
ReadyCount(q, completed) ==
    IF q = <<>> THEN 0
    ELSE IF FenceReached(task[Head(q)].m_fenceValue, completed)
    THEN 1 + ReadyCount(Tail(q), completed)
    ELSE 0

\* Mutation: the last finalized task is not popped from the FIFO.
RemainingKeepsLast(onGpu, n) ==
    SubSeq(onGpu, IF n > 0 THEN n ELSE 1, Len(onGpu))

\* m_tasksOnGpu after the first n tasks were popped and finalized.
Remaining(onGpu, n) == SubSeq(onGpu, n + 1, Len(onGpu))

\* GpuUploaderTask::GetError as Finalize sees it.
GetError(t) == task[t].m_result

\* GpuUploaderImpl::FetchAndFinalizeTasks: drain the awaiting-finalize
\* queue into the FIFO, then finalize from the front while the fence has
\* reached the task's fence value.
FetchAndFinalizeTasks ==
    /\ ~crashed
    /\ main.pc = "idle"
    /\ main.held = NoList
    /\ LET onGpu == Drain(m_tasksOnGpu, m_tasksNeedFinalize)
           n     == ReadyCount(onGpu, completedValue)
           ready == SubSeq(onGpu, 1, n)
           done  == {ready[i] : i \in 1..n}
       IN  /\ m_tasksNeedFinalize' = <<>>
           /\ m_tasksOnGpu' = Remaining(onGpu, n)
           /\ finalizeOrder' = finalizeOrder \o ready
           /\ task' = [t \in AllTasks |->
                         IF t \in done
                         THEN [task[t] EXCEPT !.state = "finalized",
                                              !.seenError = GetError(t),
                                              !.finalized = @ + 1]
                         ELSE task[t]]
           /\ m_texturesById' = [t \in AllTasks |->
                         IF t \in done
                         THEN FinalizeResource(m_texturesById[t],
                                               TaskResource(t), GetError(t))
                         ELSE m_texturesById[t]]
           /\ m_texturesToTransition' = m_texturesToTransition \o
                         SelectSeq(ready, LAMBDA t : NeedsTransition(GetError(t)))
    /\ UNCHANGED <<m_shouldExit, m_currentWriteIndex, m_currentReadIndex,
                   m_batches, m_taskQueue, completedValue, worker, main,
                   copyQueue, returned, executeOrder, closed, crashed,
                   m_srvDescriptorPool, m_sizer, frames, idleFrames>>

\* GpuUploaderImpl::Stop: set the exit flag, kick, join the worker if it is
\* still joinable.
Stop ==
    /\ ~crashed
    /\ main.pc = "idle"
    /\ main.held = NoList
    /\ m_shouldExit' = TRUE
    /\ main' = [main EXCEPT !.pc = IF main.joinable THEN "joining" ELSE "idle"]
    /\ UNCHANGED <<m_currentWriteIndex, m_currentReadIndex, m_batches,
                   m_taskQueue, m_tasksNeedFinalize, m_tasksOnGpu, completedValue,
                   task, worker, copyQueue, returned, finalizeOrder,
                   executeOrder, closed, crashed>>

\* m_thread.join() returns when ThreadFunc has returned.
StopJoin ==
    /\ ~crashed
    /\ main.pc = "joining"
    /\ worker.pc = "exited"
    /\ main' = [main EXCEPT !.pc = "idle", !.joinable = FALSE]
    /\ UNCHANGED <<m_shouldExit, m_currentWriteIndex, m_currentReadIndex,
                   m_batches, m_taskQueue, m_tasksNeedFinalize, m_tasksOnGpu,
                   completedValue, task, worker, copyQueue, returned,
                   finalizeOrder, executeOrder, closed, crashed>>

-----------------------------------------------------------------------------
(***************************************************************************)
(* The shutdown handshake step by step.  WorkerDequeue, WorkerWake and     *)
(* Stop above take the exit test, the dequeue and the condition variable   *)
(* in one step each; the actions below take ThreadFunc, Kick and Stop one  *)
(* atomic load, one mutex operation and one notification at a time.  The   *)
(* worker holds m_taskMutex from its lock to the end of the if block.      *)
(***************************************************************************)

\* Mutation: the inner loop does not look at the exit flag.
ExitRequestedNever(shouldExit) == FALSE

\* m_shouldExit.load() in the inner loop.
ExitRequested(shouldExit) == shouldExit

\* while (m_shouldExit.load() == false) at the head of the inner loop.
WorkerLoopCheck ==
    /\ ~crashed
    /\ worker.pc = "loop"
    /\ worker' = [worker EXCEPT !.pc = IF ExitRequested(m_shouldExit)
                                       THEN "close" ELSE "try"]
    /\ UNCHANGED <<m_shouldExit, m_currentWriteIndex, m_currentReadIndex,
                   m_batches, m_taskQueue, m_tasksNeedFinalize, m_tasksOnGpu,
                   completedValue, task, main, copyQueue, returned, finalizeOrder,
                   executeOrder, closed, crashed, stopVars>>

\* Mutation: the worker closes its batch when it finds the queue empty.
OnEmptyQueueClose == "close"

\* if (!m_taskQueue.try_dequeue(task)): the worker goes on to wait.
OnEmptyQueue == "lock"

\* The first try_dequeue: a task, or on to the lock of the mutex.
WorkerTryDequeue ==
    /\ ~crashed
    /\ worker.pc = "try"
    /\ IF m_taskQueue # <<>>
         THEN TakeTask
         ELSE /\ worker' = [worker EXCEPT !.pc = OnEmptyQueue]
              /\ UNCHANGED <<m_taskQueue, task>>
    /\ UNCHANGED <<m_shouldExit, m_currentWriteIndex, m_currentReadIndex,
                   m_batches, m_tasksNeedFinalize, m_tasksOnGpu, completedValue,
                   main, copyQueue, returned, finalizeOrder, executeOrder,
                   closed, crashed, stopVars>>

\* std::unique_lock<std::mutex> lock(m_taskMutex), also when the wait
\* reacquires the mutex after a wakeup.
WorkerLock ==
    /\ ~crashed
    /\ worker.pc = "lock"
    /\ m_taskMutex = "free"
    /\ m_taskMutex' = "worker"
    /\ worker' = [worker EXCEPT !.pc = "pred"]
    /\ UNCHANGED <<m_shouldExit, m_currentWriteIndex, m_currentReadIndex,
                   m_batches, m_taskQueue, m_tasksNeedFinalize, m_tasksOnGpu,
                   completedValue, task, main, copyQueue, returned, finalizeOrder,
                   executeOrder, closed, crashed, queuedAtStop, stops>>

\* Mutation: the predicate of the wait looks at the queue only.
WaitPredicateQueueOnly(shouldExit, queue) == queue # <<>>

\* The predicate of the wait.
WaitPredicate(shouldExit, queue) == shouldExit \/ queue # <<>>

\* m_taskCondition.wait evaluates its predicate with the mutex held: the
\* wait returns, or the worker goes on to block.
WorkerPredicate ==
    /\ ~crashed
    /\ worker.pc = "pred"
    /\ worker' = [worker EXCEPT !.pc =
                     IF WaitPredicate(m_shouldExit, m_taskQueue)
                     THEN "woken" ELSE "block"]
    /\ UNCHANGED <<m_shouldExit, m_currentWriteIndex, m_currentReadIndex,
                   m_batches, m_taskQueue, m_tasksNeedFinalize, m_tasksOnGpu,
                   completedValue, task, main, copyQueue, returned, finalizeOrder,
                   executeOrder, closed, crashed, stopVars>>

\* The wait releases the mutex and blocks the worker, in one step.
WorkerBlock ==
    /\ ~crashed
    /\ worker.pc = "block"
    /\ worker' = [worker EXCEPT !.pc = "blocked"]
    /\ m_taskMutex' = "free"
    /\ UNCHANGED <<m_shouldExit, m_currentWriteIndex, m_currentReadIndex,
                   m_batches, m_taskQueue, m_tasksNeedFinalize, m_tasksOnGpu,
                   completedValue, task, main, copyQueue, returned, finalizeOrder,
                   executeOrder, closed, crashed, queuedAtStop, stops>>

\* A wakeup of the blocked worker that is not the notification of Stop or
\* SubmitTask: a spurious one, or the Kick of GetExecutableCommandListIfAny.
WorkerSpurious ==
    /\ ~crashed
    /\ worker.pc = "blocked"
    /\ worker' = [worker EXCEPT !.pc = "lock"]
    /\ UNCHANGED <<m_shouldExit, m_currentWriteIndex, m_currentReadIndex,
                   m_batches, m_taskQueue, m_tasksNeedFinalize, m_tasksOnGpu,
                   completedValue, task, main, copyQueue, returned, finalizeOrder,
                   executeOrder, closed, crashed, stopVars>>

\* if (m_shouldExit.load()) break; after the wait has returned.
WorkerExitCheck ==
    /\ ~crashed
    /\ worker.pc = "woken"
    /\ IF ExitRequested(m_shouldExit)
         THEN /\ worker' = [worker EXCEPT !.pc = "close"]
              /\ m_taskMutex' = "free"
         ELSE /\ worker' = [worker EXCEPT !.pc = "retry"]
              /\ UNCHANGED m_taskMutex
    /\ UNCHANGED <<m_shouldExit, m_currentWriteIndex, m_currentReadIndex,
                   m_batches, m_taskQueue, m_tasksNeedFinalize, m_tasksOnGpu,
                   completedValue, task, main, copyQueue, returned, finalizeOrder,
                   executeOrder, closed, crashed, queuedAtStop, stops>>

\* The second try_dequeue; continue when it fails.  The lock is released
\* at the end of the block.
WorkerRetryDequeue ==
    /\ ~crashed
    /\ worker.pc = "retry"
    /\ IF m_taskQueue # <<>>
         THEN TakeTask
         ELSE /\ worker' = [worker EXCEPT !.pc = "loop"]
              /\ UNCHANGED <<m_taskQueue, task>>
    /\ m_taskMutex' = "free"
    /\ UNCHANGED <<m_shouldExit, m_currentWriteIndex, m_currentReadIndex,
                   m_batches, m_tasksNeedFinalize, m_tasksOnGpu, completedValue,
                   main, copyQueue, returned, finalizeOrder, executeOrder,
                   closed, crashed, queuedAtStop, stops>>

\* m_taskQueue.enqueue(std::move(task)) of SubmitTask; Kick follows.
SubmitTaskEnqueue(t) ==
    /\ ~crashed
    /\ main.pc = "idle"
    /\ main.held = NoList
    /\ task[t].state = "new"
    /\ \A u \in Tasks : u < t => task[u].state # "new"
    /\ m_taskQueue' = Append(m_taskQueue, t)
    /\ task' = [task EXCEPT ![t].state = "queued"]
    /\ main' = [main EXCEPT !.pc = "kick"]
    /\ UNCHANGED <<m_shouldExit, m_currentWriteIndex, m_currentReadIndex,
                   m_batches, m_tasksNeedFinalize, m_tasksOnGpu, completedValue,
                   worker, copyQueue, returned, finalizeOrder, executeOrder,
                   closed, crashed, stopVars>>

\* Mutation: Kick notifies without having taken the mutex.
KickTakesMutexNever(pc) == FALSE

\* Whether Kick, at this point of the caller, first takes m_taskMutex.
KickTakesMutex(pc) == pc \in {"kick", "stopKick"}

\* Kick: { std::lock_guard<std::mutex> lock(m_taskMutex); }
KickLock ==
    /\ ~crashed
    /\ main.pc \in {"kick", "stopKick"}
    /\ KickTakesMutex(main.pc) => m_taskMutex = "free"
    /\ main' = [main EXCEPT !.pc = IF main.pc = "kick" THEN "notify"
                                   ELSE "stopNotify"]
    /\ UNCHANGED <<m_shouldExit, m_currentWriteIndex, m_currentReadIndex,
                   m_batches, m_taskQueue, m_tasksNeedFinalize, m_tasksOnGpu,
                   completedValue, task, worker, copyQueue, returned,
                   finalizeOrder, executeOrder, closed, crashed, stopVars>>

\* Kick: m_taskCondition.notify_one() wakes the worker if it is blocked in
\* the wait; otherwise the notification has no effect.
KickNotify ==
    /\ ~crashed
    /\ main.pc \in {"notify", "stopNotify"}
    /\ main' = [main EXCEPT !.pc = IF main.pc = "notify" THEN "idle"
                                   ELSE "stopJoinable"]
    /\ worker' = IF worker.pc = "blocked" THEN [worker EXCEPT !.pc = "lock"]
                 ELSE worker
    /\ UNCHANGED <<m_shouldExit, m_currentWriteIndex, m_currentReadIndex,
                   m_batches, m_taskQueue, m_tasksNeedFinalize, m_tasksOnGpu,
                   completedValue, task, copyQueue, returned, finalizeOrder,
                   executeOrder, closed, crashed, stopVars>>

\* Stop: m_shouldExit.store(true); Kick follows.
StopStore ==
    /\ ~crashed
    /\ main.pc = "idle"
    /\ main.held = NoList
    /\ stops < MaxStops
    /\ m_shouldExit' = TRUE
    /\ queuedAtStop' = IF m_shouldExit THEN queuedAtStop
                       ELSE {m_taskQueue[i] : i \in 1..Len(m_taskQueue)}
    /\ main' = [main EXCEPT !.pc = "stopKick"]
    /\ UNCHANGED <<m_currentWriteIndex, m_currentReadIndex, m_batches,
                   m_taskQueue, m_tasksNeedFinalize, m_tasksOnGpu, completedValue,
                   task, worker, copyQueue, returned, finalizeOrder,
                   executeOrder, closed, crashed, m_taskMutex, stops>>

\* Mutation: Stop joins the thread whether it is joinable or not.
JoinableAlways(m) == TRUE

\* m_thread.joinable()
Joinable(m) == m.joinable

\* Stop: if (m_thread.joinable()); the call returns when it is not.
StopJoinable ==
    /\ ~crashed
    /\ main.pc = "stopJoinable"
    /\ IF Joinable(main)
         THEN /\ main' = [main EXCEPT !.pc = "joining"]
              /\ UNCHANGED stops
         ELSE /\ main' = [main EXCEPT !.pc = "idle"]
              /\ stops' = stops + 1
    /\ UNCHANGED <<m_shouldExit, m_currentWriteIndex, m_currentReadIndex,
                   m_batches, m_taskQueue, m_tasksNeedFinalize, m_tasksOnGpu,
                   completedValue, task, worker, copyQueue, returned,
                   finalizeOrder, executeOrder, closed, crashed, m_taskMutex,
                   queuedAtStop>>

\* Stop: m_thread.join() returns and so does the call.
StopJoined ==
    /\ StopJoin
    /\ stops' = stops + 1
    /\ UNCHANGED <<m_taskMutex, queuedAtStop>>

-----------------------------------------------------------------------------
Worker ==
    \/ WorkerBeginBatch
    \/ WorkerDequeue
    \/ WorkerWake
    \/ WorkerExecuteBegin
    \/ WorkerExecuteEnd
    \/ WorkerDecide
    \/ WorkerCloseBatch

\* TextureManager::Create: a new resource and the task that loads it.
Create(t) == NewResource(t) /\ SubmitTask(t)

\* The steps of a running program: the worker, the producers, the consumer
\* of the command lists, the device and the finalizing main thread.
NextRunning ==
    \/ Worker /\ UNCHANGED <<textureVars, restVars>>
    \/ \E t \in Tasks :
          Create(t) /\ UNCHANGED <<m_texturesToTransition, m_srvDescriptorPool,
                                   m_sizer, frames, idleFrames,
                                   restVars>>
    \/ GetExecutableCommandListIfAny /\ UNCHANGED <<textureVars, restVars>>
    \/ ExecuteAndSignal /\ UNCHANGED <<textureVars, restVars>>
    \/ DeviceComplete /\ UNCHANGED <<textureVars, restVars>>
    \/ FetchAndFinalizeTasks /\ UNCHANGED restVars

\* The uploader with its shutdown.
Next ==
    \/ NextRunning
    \/ Stop /\ UNCHANGED <<textureVars, restVars>>
    \/ StopJoin /\ UNCHANGED <<textureVars, restVars>>

Spec == Init /\ [][Next]_vars

\* Mutation: the tasks still in the submission queue are counted as well.
FetchResultWithQueued(onGpu) == Len(onGpu) + Len(m_taskQueue)

\* return m_tasksOnGpu.size();
FetchResult(onGpu) == Len(onGpu)

\* A FetchAndFinalizeTasks call together with the value it returns.
FetchReturns ==
    /\ FetchAndFinalizeTasks
    /\ fetchReturn' = FetchResult(m_tasksOnGpu')

\* The uploader with its shutdown, the return values of
\* FetchAndFinalizeTasks recorded.
FetchNext ==
    \/ Worker /\ UNCHANGED <<textureVars, restVars>>
    \/ \E t \in Tasks :
          Create(t) /\ UNCHANGED <<m_texturesToTransition, m_srvDescriptorPool,
                                   m_sizer, frames, idleFrames,
                                   restVars>>
    \/ GetExecutableCommandListIfAny /\ UNCHANGED <<textureVars, restVars>>
    \/ ExecuteAndSignal /\ UNCHANGED <<textureVars, restVars>>
    \/ DeviceComplete /\ UNCHANGED <<textureVars, restVars>>
    \/ FetchReturns /\ UNCHANGED <<stopVars, poolVars, sizerVars, treeVars, lockVars>>
    \/ Stop /\ UNCHANGED <<textureVars, restVars>>
    \/ StopJoin /\ UNCHANGED <<textureVars, restVars>>

FetchSpec == Init /\ [][FetchNext]_vars

\* The running program under fair scheduling: the worker thread runs, the
\* main thread keeps polling, submitting and finalizing, the device works
\* off its queue; Stop is not called.
LiveSpec ==
    /\ Init
    /\ [][NextRunning]_vars
    /\ WF_vars(Worker /\ UNCHANGED <<textureVars, restVars>>)
    /\ WF_vars(GetExecutableCommandListIfAny /\ UNCHANGED <<textureVars, restVars>>)
    /\ WF_vars(ExecuteAndSignal /\ UNCHANGED <<textureVars, restVars>>)
    /\ WF_vars(DeviceComplete /\ UNCHANGED <<textureVars, restVars>>)
    /\ WF_vars(FetchAndFinalizeTasks /\ UNCHANGED restVars)

\* The render loop: the running program with the per-frame transitions.
TextureNext ==
    \/ NextRunning
    \/ TransitionTextures /\ UNCHANGED restVars

TextureSpec == Init /\ [][TextureNext]_vars

\* A descriptor pool of any capacity up to MaxCount, used through Alloc and
\* Free of live handles.
PoolSpecInit ==
    /\ UploaderInit /\ TextureInit /\ StopInit /\ OtherInit
    /\ \E descriptorCount \in 0..MaxCount : PoolInit(descriptorCount)

PoolNext ==
    \/ PoolAlloc /\ UNCHANGED <<uploaderVars, textureVars, stopVars, otherVars>>
    \/ \E handle \in liveHandles :
          PoolFree(handle) /\ UNCHANGED <<uploaderVars, textureVars, stopVars, otherVars>>

PoolSpec == PoolSpecInit /\ [][PoolNext]_vars

-----------------------------------------------------------------------------
(***************************************************************************)
(* The texture manager on its own.  What the uploader does between         *)
(* SubmitTask and Finalize is taken as one step for Execute and one for    *)
(* Finalize; tasks are executed and finalized in the order of submission.  *)
(***************************************************************************)

\* TextureManager::Create: the resource is in the map, its task submitted.
TextureCreate(t) ==
    /\ ~crashed
    /\ task[t].state = "new"
    /\ \A u \in Tasks : u < t => task[u].state # "new"
    /\ NewResource(t)
    /\ task' = [task EXCEPT ![t].state = "queued"]
    /\ UNCHANGED <<m_texturesToTransition, m_srvDescriptorPool, m_sizer, frames, idleFrames>>

\* TextureLoadTask::Execute has run on the worker and returned r.
TextureExecute(t, r) ==
    /\ ~crashed
    /\ task[t].state = "queued"
    /\ \A u \in Tasks : u < t => task[u].state \in {"executed", "finalized"}
    /\ task' = [task EXCEPT ![t].executeResult = r,
                            ![t].m_result = StoreResult(@, r),
                            ![t].state = "executed",
                            ![t].executed = @ + 1,
                            ![t].enqueued = @ + 1]
    /\ UNCHANGED textureVars

\* TextureLoadTask::Finalize, called by FetchAndFinalizeTasks.
TextureFinalize(t) ==
    /\ ~crashed
    /\ task[t].state = "executed"
    /\ \A u \in Tasks : u < t => task[u].state = "finalized"
    /\ task' = [task EXCEPT ![t].state = "finalized",
                            ![t].seenError = GetError(t),
                            ![t].finalized = @ + 1]
    /\ m_texturesById' = [m_texturesById EXCEPT
                            ![t] = FinalizeResource(@, TaskResource(t), GetError(t))]
    /\ m_texturesToTransition' =
          IF NeedsTransition(GetError(t))
          THEN Append(m_texturesToTransition, t) ELSE m_texturesToTransition
    /\ UNCHANGED <<m_srvDescriptorPool, m_sizer, frames, idleFrames>>

-----------------------------------------------------------------------------
(***************************************************************************)
(* Sizer (src/d3d12_common.hpp) on its own: a Sizer reset to kMinPoolSize  *)
(* as in TextureManager::Create, then asked for its next size repeatedly.  *)
(***************************************************************************)

\* The sizes requested: none, around the committed size, and a spike.
RequestedSizes == {0, kMinPoolSize - 1, kMinPoolSize, kMinPoolSize + 1, MaxRequest}

\* The call requests another size than the call before it.
IsSwitch(requestedSize) ==
    sizerCall.calls > 0 /\ requestedSize # sizerCall.requested

\* One call sizer.GetNextSize(requestedSize).
SizerGetNextSize(requestedSize) ==
    /\ sizerCall.calls < MaxCalls
    /\ IsSwitch(requestedSize) => sizerCall.switches < MaxSwitches
    /\ LET n == GetNextSize(sizerState, requestedSize)
       IN  /\ sizerState' = n.sizer
           /\ sizerCall' = [calls |-> sizerCall.calls + 1,
                            switches |-> sizerCall.switches
                                           + (IF IsSwitch(requestedSize) THEN 1 ELSE 0),
                            requested |-> requestedSize, size |-> n.size]

SizerNext ==
    \E requestedSize \in RequestedSizes :
        SizerGetNextSize(requestedSize)
           /\ UNCHANGED <<uploaderVars, textureVars, stopVars, poolVars, treeVars,
                        fetchVars, lockVars>>

SizerSpec == Init /\ [][SizerNext]_vars

-----------------------------------------------------------------------------
(***************************************************************************)
(* EntityTree (src/entity_tree.cpp): the intrusive tree of entities.       *)
(* World (src/world.cpp) manipulates the same links with the same          *)
(* statements; it returns where EntityTree throws and publishes nothing.   *)
(***************************************************************************)

\* m_entities.find(e) != m_entities.end()
Has(ents, e) == e \in Entities /\ ents[e].exists

\* The results of the operations: the map, whether the call threw, and the
\* signals it published.
TreeThrow(ents) == [ents |-> ents, thrown |-> TRUE, signals |-> <<>>]

\* EntityTree::AddEntity.
AddEntity(ents, entity, parent) ==
    IF Has(ents, entity) THEN TreeThrow(ents)
    ELSE IF ~Has(ents, parent) THEN TreeThrow(ents)
    ELSE LET last    == ents[parent].m_lastChild
             first   == ents[parent].m_firstChild
             linked  == first # kNullEntity /\ Has(ents, last)
             newNode == [NewNode(entity) EXCEPT
                           !.m_parent = parent,
                           !.m_previousSibling = IF linked THEN last ELSE kNullEntity]
             e1 == IF first = kNullEntity
                   THEN [ents EXCEPT ![parent].m_firstChild = entity,
                                     ![parent].m_lastChild = entity]
                   ELSE LET e0 == IF linked
                                  THEN [ents EXCEPT ![last].m_nextSibling = entity]
                                  ELSE ents
                        IN  [e0 EXCEPT ![parent].m_lastChild = entity]
         IN  [ents |-> [e1 EXCEPT ![entity] = newNode], thrown |-> FALSE,
              signals |-> <<>>]

\* Mutation: the parent's m_lastChild is left alone.
DetachFromParentFirstOnly(ents, entity) ==
    LET node   == ents[entity]
        parent == node.m_parent
    IN  IF parent # kNullEntity /\ Has(ents, parent)
        THEN [ents EXCEPT
                ![parent].m_firstChild =
                    IF @ = entity THEN node.m_nextSibling ELSE @]
        ELSE ents

\* "Update parent's child pointers": the parent of the entity no longer
\* names it as its first or last child.
DetachFromParent(ents, entity) ==
    LET node   == ents[entity]
        parent == node.m_parent
    IN  IF parent # kNullEntity /\ Has(ents, parent)
        THEN [ents EXCEPT
                ![parent].m_firstChild =
                    IF @ = entity THEN node.m_nextSibling ELSE @,
                ![parent].m_lastChild =
                    IF @ = entity THEN node.m_previousSibling ELSE @]
        ELSE ents

\* Mutation: only the previous sibling is relinked.
UnlinkSiblingsPreviousOnly(ents, entity) ==
    LET node == ents[entity]
    IN  IF node.m_previousSibling # kNullEntity /\ Has(ents, node.m_previousSibling)
        THEN [ents EXCEPT ![node.m_previousSibling].m_nextSibling = node.m_nextSibling]
        ELSE ents

\* "Update sibling links": the neighbours of the entity are linked to each
\* other.
UnlinkSiblings(ents, entity) ==
    LET node == ents[entity]
        e1 == IF node.m_previousSibling # kNullEntity
                   /\ Has(ents, node.m_previousSibling)
              THEN [ents EXCEPT
                      ![node.m_previousSibling].m_nextSibling = node.m_nextSibling]
              ELSE ents
    IN  IF node.m_nextSibling # kNullEntity /\ Has(e1, node.m_nextSibling)
        THEN [e1 EXCEPT
                ![node.m_nextSibling].m_previousSibling = node.m_previousSibling]
        ELSE e1

\* EntityTree::RemoveEntity, and its while loop over the children.
RECURSIVE RemoveEntity(_, _), RemoveChildren(_, _, _)
RemoveChildren(ents, child, signals) ==
    IF child = kNullEntity \/ ~Has(ents, child)
    THEN [ents |-> ents, signals |-> signals]
    ELSE LET nextChild == ents[child].m_nextSibling
             r == RemoveEntity(ents, child)
         IN  RemoveChildren(r.ents, nextChild, signals \o r.signals)

RemoveEntity(ents, entity) ==
    IF entity = kRoot THEN TreeThrow(ents)
    ELSE IF ~Has(ents, entity) THEN TreeThrow(ents)
    ELSE LET c  == RemoveChildren(ents, ents[entity].m_firstChild, <<>>)
             e1 == DetachFromParent(c.ents, entity)
             e2 == UnlinkSiblings(e1, entity)
         IN  [ents |-> [e2 EXCEPT ![entity] = NoNode], thrown |-> FALSE,
              signals |-> Append(c.signals, [type |-> "EntityRemoveSignal",
                                             m_entity |-> entity])]

\* Mutation: only the new parent itself is compared with the entity.
IsCircularSelfOnly(ents, entity, ancestor) == ancestor = entity

\* "Check for circular dependency": the walk from the new parent up the
\* m_parent links meets the entity.
RECURSIVE IsCircular(_, _, _)
IsCircular(ents, entity, ancestor) ==
    IF ancestor = kNullEntity THEN FALSE
    ELSE IF ancestor = entity THEN TRUE
    ELSE IF Has(ents, ancestor) THEN IsCircular(ents, entity, ents[ancestor].m_parent)
    ELSE FALSE

\* "Add to new parent's children": the entity becomes the last child.
AppendChild(ents, entity, newParent) ==
    LET first == ents[newParent].m_firstChild
        last  == ents[newParent].m_lastChild
    IN  IF first = kNullEntity
        THEN [ents EXCEPT ![newParent].m_firstChild = entity,
                          ![newParent].m_lastChild = entity]
        ELSE LET e0 == IF Has(ents, last)
                       THEN [ents EXCEPT ![last].m_nextSibling = entity,
                                         ![entity].m_previousSibling = last]
                       ELSE ents
             IN  [e0 EXCEPT ![newParent].m_lastChild = entity]

\* EntityTree::SetParent.
SetParent(ents, entity, newParent) ==
    IF entity = kRoot THEN TreeThrow(ents)
    ELSE IF ~Has(ents, entity) \/ ~Has(ents, newParent) THEN TreeThrow(ents)
    ELSE IF IsCircular(ents, entity, newParent)
    THEN [ents |-> ents, thrown |-> FALSE, signals |-> <<>>]
    ELSE LET oldParent == ents[entity].m_parent
             e1 == IF oldParent # kNullEntity
                   THEN UnlinkSiblings(DetachFromParent(ents, entity), entity)
                   ELSE ents
             e2 == [e1 EXCEPT ![entity].m_previousSibling = kNullEntity,
                              ![entity].m_nextSibling = kNullEntity,
                              ![entity].m_parent = newParent]
         IN  [ents |-> AppendChild(e2, entity, newParent), thrown |-> FALSE,
              signals |-> <<[type |-> "EntityParentChangeSignal",
                             m_entity |-> entity, m_oldParent |-> oldParent,
                             m_newParent |-> newParent]>>]

\* The call tree.CreateEntity(parent): the id is taken before AddEntity runs.
TreeCreateEntity(parent) ==
    /\ m_nextEntityId <= MaxEntities
    /\ LET newId == m_nextEntityId
           r     == AddEntity(m_entities, newId, parent)
       IN  /\ m_nextEntityId' = newId + 1
           /\ m_entities' = r.ents
           /\ treeCall' = [op |-> "CreateEntity", entity |-> newId,
                           parent |-> parent, thrown |-> r.thrown,
                           signals |-> IF r.thrown THEN <<>>
                                       ELSE <<[type |-> "EntityCreateSignal",
                                               m_entity |-> newId,
                                               m_parent |-> parent]>>]

\* The call tree.RemoveEntity(entity).
TreeRemoveEntity(entity) ==
    LET r == RemoveEntity(m_entities, entity)
    IN  /\ m_entities' = r.ents
        /\ treeCall' = [op |-> "RemoveEntity", entity |-> entity,
                        parent |-> kNullEntity, thrown |-> r.thrown,
                        signals |-> r.signals]
        /\ UNCHANGED m_nextEntityId

\* The call tree.SetParent(entity, newParent).
TreeSetParent(entity, newParent) ==
    LET r == SetParent(m_entities, entity, newParent)
    IN  /\ m_entities' = r.ents
        /\ treeCall' = [op |-> "SetParent", entity |-> entity,
                        parent |-> newParent, thrown |-> r.thrown,
                        signals |-> r.signals]
        /\ UNCHANGED m_nextEntityId

TreeNext ==
    \/ \E parent \in Entities :
          TreeCreateEntity(parent)
             /\ UNCHANGED <<uploaderVars, textureVars, stopVars, poolVars, sizerVars,
                          fetchVars, lockVars>>
    \/ \E entity \in Entities :
          TreeRemoveEntity(entity)
             /\ UNCHANGED <<uploaderVars, textureVars, stopVars, poolVars, sizerVars,
                          fetchVars, lockVars>>
    \/ \E entity \in Entities, newParent \in Entities :
          TreeSetParent(entity, newParent)
             /\ UNCHANGED <<uploaderVars, textureVars, stopVars, poolVars, sizerVars,
                          fetchVars, lockVars>>

TreeSpec == Init /\ [][TreeNext]_vars

\* The texture manager: textures are created, uploaded and finalized, and
\* frames are rendered.
ManagerSpecInit ==
    /\ UploaderInit /\ TextureInit /\ StopInit /\ PoolInit(0) /\ OtherInit

ManagerNext ==
    \/ \E t \in Tasks :
          TextureCreate(t)
             /\ UNCHANGED <<m_shouldExit, m_currentWriteIndex, m_currentReadIndex,
                            m_batches, m_taskQueue, m_tasksNeedFinalize,
                            m_tasksOnGpu, completedValue, worker, main, copyQueue,
                            returned, finalizeOrder, executeOrder, closed, crashed,
                            restVars>>
    \/ \E t \in Tasks, r \in {Ok, Err} :
          TextureExecute(t, r)
             /\ UNCHANGED <<m_shouldExit, m_currentWriteIndex, m_currentReadIndex,
                            m_batches, m_taskQueue, m_tasksNeedFinalize,
                            m_tasksOnGpu, completedValue, worker, main, copyQueue,
                            returned, finalizeOrder, executeOrder, closed, crashed,
                            restVars>>
    \/ \E t \in Tasks :
          TextureFinalize(t)
             /\ UNCHANGED <<m_shouldExit, m_currentWriteIndex, m_currentReadIndex,
                            m_batches, m_taskQueue, m_tasksNeedFinalize,
                            m_tasksOnGpu, completedValue, worker, main, copyQueue,
                            returned, finalizeOrder, executeOrder, closed, crashed,
                            restVars>>
    \/ TransitionTextures /\ UNCHANGED restVars
    \/ IdleFrame /\ UNCHANGED restVars

ManagerSpec == ManagerSpecInit /\ [][ManagerNext]_vars

\* The steps of the worker thread in the step-by-step model, without the
\* wakeups it cannot rely on.
StopWorker ==
    \/ WorkerBeginBatch /\ UNCHANGED stopVars
    \/ WorkerLoopCheck
    \/ WorkerTryDequeue
    \/ WorkerLock
    \/ WorkerPredicate
    \/ WorkerBlock
    \/ WorkerExitCheck
    \/ WorkerRetryDequeue
    \/ WorkerExecuteBegin /\ UNCHANGED stopVars
    \/ WorkerExecuteEnd /\ UNCHANGED stopVars
    \/ WorkerDecide /\ UNCHANGED stopVars
    \/ WorkerCloseBatch /\ UNCHANGED stopVars

\* The steps of Kick and of Stop after the store of the exit flag.
StopSteps ==
    \/ KickLock
    \/ KickNotify
    \/ StopJoinable
    \/ StopJoined

\* The uploader with Stop, step by step.
StopNext ==
    \/ StopWorker /\ UNCHANGED <<textureVars, poolVars, otherVars>>
    \/ WorkerSpurious /\ UNCHANGED <<textureVars, poolVars, otherVars>>
    \/ \E t \in Tasks :
          NewResource(t) /\ SubmitTaskEnqueue(t)
             /\ UNCHANGED <<m_texturesToTransition, m_srvDescriptorPool,
                            m_sizer, frames, idleFrames,
                            poolVars, otherVars>>
    \/ StopStore /\ UNCHANGED <<textureVars, poolVars, otherVars>>
    \/ StopSteps /\ UNCHANGED <<textureVars, poolVars, otherVars>>
    \/ GetExecutableCommandListIfAny /\ UNCHANGED <<textureVars, restVars>>
    \/ ExecuteAndSignal /\ UNCHANGED <<textureVars, restVars>>
    \/ DeviceComplete /\ UNCHANGED <<textureVars, restVars>>
    \/ FetchAndFinalizeTasks /\ UNCHANGED restVars

\* The steps of Kick.
KickSteps ==
    \/ KickLock
    \/ KickNotify

\* The uploader step by step while Stop is not called, with one task more
\* than it takes to run the read index past the end of m_batches.
RunNext ==
    \/ StopWorker /\ UNCHANGED <<textureVars, poolVars, otherVars>>
    \/ WorkerSpurious /\ UNCHANGED <<textureVars, poolVars, otherVars>>
    \/ \E t \in RunTasks :
          NewResource(t) /\ SubmitTaskEnqueue(t)
             /\ UNCHANGED <<m_texturesToTransition, m_srvDescriptorPool,
                            m_sizer, frames, idleFrames,
                            poolVars, otherVars>>
    \/ KickSteps /\ UNCHANGED <<textureVars, poolVars, otherVars>>
    \/ GetExecutableCommandListIfAny /\ UNCHANGED <<textureVars, restVars>>
    \/ ExecuteAndSignal /\ UNCHANGED <<textureVars, restVars>>
    \/ DeviceComplete /\ UNCHANGED <<textureVars, restVars>>
    \/ FetchAndFinalizeTasks /\ UNCHANGED restVars

\* The worker thread is scheduled, Execute returns and a call of SubmitTask
\* runs to its end; nothing is assumed of the consumer or of the device.
RunSpec ==
    /\ Init
    /\ [][RunNext]_vars
    /\ WF_vars(StopWorker /\ UNCHANGED <<textureVars, poolVars, otherVars>>)
    /\ WF_vars(KickSteps /\ UNCHANGED <<textureVars, poolVars, otherVars>>)

\* Both threads are scheduled and Execute returns; nothing else is assumed:
\* no further calls of the main thread, no spurious wakeups.
StopSpec ==
    /\ Init
    /\ [][StopNext]_vars
    /\ WF_vars(StopWorker /\ UNCHANGED <<textureVars, poolVars, otherVars>>)
    /\ WF_vars(StopSteps /\ UNCHANGED <<textureVars, poolVars, otherVars>>)


-----------------------------------------------------------------------------
(***************************************************************************)
(* GpuUploaderResources and GpuUploaderCommandListLock                      *)
(* (src/d3d12_upload2.cpp, src/d3d12_upload2.hpp): the variant in which    *)
(* the consumer holds a lock on the batch it was handed and the read index *)
(* advances when the lock is released.  The code that records into the     *)
(* batches and advances the write index is not in src; it is taken from    *)
(* the worker loop of the specification.                                   *)
(***************************************************************************)

\* Steps 4 and 5 of the worker loop: with the consumer caught up, the batch
\* at the write index is closed and stamped and the write index advances.
ResourcesCloseBatch ==
    /\ resources.m_currentWriteIndex < MaxClosed
    /\ resources.m_currentReadIndex >= resources.m_currentWriteIndex
    /\ resources' = [resources EXCEPT
                       !.m_batches[GetBatch(resources.m_currentWriteIndex)] =
                           BatchFenceValue(resources.m_currentWriteIndex),
                       !.m_currentWriteIndex = @ + 1]
    /\ UNCHANGED <<locks, obtained>>

\* GetExecutableCommandListIfAny leaves the read index where it is.
ReadIndexAfterGet(index) == index

\* GpuUploaderResources::GetExecutableCommandListIfAny into the object l of
\* the consumer.  The temporary the lock is moved out of is destroyed
\* moved-from and releases nothing.
LockGet(l) ==
    /\ Len(obtained) < MaxGets
    /\ ~locks[l].alive
    /\ resources.m_currentReadIndex < resources.m_currentWriteIndex
    /\ LET fenceValue == resources.m_batches[GetBatch(resources.m_currentReadIndex)]
       IN  /\ locks' = [locks EXCEPT ![l] = NewLock(fenceValue)]
           /\ obtained' = Append(obtained, fenceValue)
    /\ resources' = [resources EXCEPT
                       !.m_currentReadIndex = ReadIndexAfterGet(@)]

\* ~GpuUploaderCommandListLock and GpuUploaderResources::ReleaseLock: a lock
\* that was not moved from advances the read index.
LockDestroy(l) ==
    /\ locks[l].alive
    /\ resources' = IF locks[l].m_resources
                    THEN [resources EXCEPT !.m_currentReadIndex = @ + 1]
                    ELSE resources
    /\ locks' = [locks EXCEPT ![l] = NoLock]
    /\ UNCHANGED obtained

\* The move constructor: a new object from the lock from.
LockMoveConstruct(from, to) ==
    /\ locks[from].alive
    /\ ~locks[to].alive
    /\ locks' = [locks EXCEPT
                   ![to] = [alive |-> TRUE,
                            m_resources |-> locks[from].m_resources,
                            m_fenceValue |-> locks[from].m_fenceValue],
                   ![from].m_resources = FALSE]
    /\ UNCHANGED <<resources, obtained>>

\* The move assignment: the object to takes over the lock from; what it
\* held before is overwritten.
LockMoveAssign(from, to) ==
    /\ locks[from].alive
    /\ locks[to].alive
    /\ from # to
    /\ locks' = [locks EXCEPT
                   ![to].m_resources = locks[from].m_resources,
                   ![to].m_fenceValue = locks[from].m_fenceValue,
                   ![from].m_resources = FALSE]
    /\ UNCHANGED <<resources, obtained>>

LockNext ==
    \/ ResourcesCloseBatch
         /\ UNCHANGED <<uploaderVars, textureVars, stopVars, poolVars, sizerVars,
                        treeVars, fetchVars>>
    \/ \E l \in 1..MaxLocks :
          LockGet(l)
             /\ UNCHANGED <<uploaderVars, textureVars, stopVars, poolVars, sizerVars,
                            treeVars, fetchVars>>
    \/ \E l \in 1..MaxLocks :
          LockDestroy(l)
             /\ UNCHANGED <<uploaderVars, textureVars, stopVars, poolVars, sizerVars,
                            treeVars, fetchVars>>
    \/ \E from, to \in 1..MaxLocks :
          LockMoveConstruct(from, to)
             /\ UNCHANGED <<uploaderVars, textureVars, stopVars, poolVars, sizerVars,
                            treeVars, fetchVars>>
    \/ \E from, to \in 1..MaxLocks :
          LockMoveAssign(from, to)
             /\ UNCHANGED <<uploaderVars, textureVars, stopVars, poolVars, sizerVars,
                            treeVars, fetchVars>>

LockSpec == Init /\ [][LockNext]_vars

-----------------------------------------------------------------------------
(***************************************************************************)
(* Properties.                                                             *)
(***************************************************************************)
IsPrefix(a, b) == Len(a) <= Len(b) /\ a = SubSeq(b, 1, Len(a))

\* Number of occurrences of task t in the sequence q.
Occurrences(q, t) == Cardinality({i \in 1..Len(q) : q[i] = t})

\* The step is a reset of a ring slot by the worker.
WorkerResets == worker.pc = "top" /\ worker'.pc = "loop"

\* C1: Finalize runs for a task only in a step taken when Execute has
\* returned for it and the completed value of the fence has reached the
\* fence value the worker stamped on it, the fence value of its batch.
C1_FinalizeAfterExecuteAndFence ==
    [][\A t \in Tasks :
         task'[t].finalized > task[t].finalized =>
            /\ task[t].state = "executed"
            /\ task[t].executeResult # "none"
            /\ task[t].m_fenceValue = BatchFenceValue(task[t].batch)
            /\ task[t].m_fenceValue <= completedValue]_vars

\* A task has been finalized while a later, executed task still waits for
\* a fence value that is not reached.
C1_Witness ==
    \E t, u \in Tasks :
        /\ task[t].finalized = 1
        /\ task[u].state = "executed"
        /\ task[u].m_fenceValue > completedValue

\* C2: tasks are finalized in the order the worker executed them; the tasks
\* awaiting finalization are queued in that order; and a call of
\* FetchAndFinalizeTasks that finalizes or drains finalizes only tasks whose
\* fence value is reached and leaves the FIFO empty or with a task at the
\* front whose fence value is not reached.
C2_FinalizeInExecutionOrder ==
    /\ [](IsPrefix(finalizeOrder \o m_tasksOnGpu \o m_tasksNeedFinalize,
                   executeOrder))
    /\ [][(m_tasksOnGpu' # m_tasksOnGpu \/ finalizeOrder' # finalizeOrder) =>
            /\ IsPrefix(finalizeOrder, finalizeOrder')
            /\ \A i \in (Len(finalizeOrder) + 1)..Len(finalizeOrder') :
                   task[finalizeOrder'[i]].m_fenceValue <= completedValue
            /\ \/ m_tasksOnGpu' = <<>>
               \/ task'[Head(m_tasksOnGpu')].m_fenceValue > completedValue']_vars

\* Two tasks were finalized and the call stopped at a third one whose
\* fence value is not reached.
C2_Witness ==
    /\ Len(finalizeOrder) >= 2
    /\ m_tasksOnGpu # <<>>
    /\ task[Head(m_tasksOnGpu)].m_fenceValue > completedValue

\* C3: under fair scheduling and without Stop, every submitted task is
\* eventually finalized.
C3_EveryTaskFinalized ==
    \A t \in Tasks : (task[t].state = "queued") ~> (task[t].state = "finalized")

\* C4: when the worker resets the slot of batch k >= BATCH_COUNT, the fence
\* has reached the fence value of batch k - BATCH_COUNT, the previous
\* contents of the slot.
C4_SlotIdleBeforeReset ==
    [][(WorkerResets /\ worker'.currentIndex >= BATCH_COUNT) =>
          completedValue >= BatchFenceValue(worker'.currentIndex - BATCH_COUNT)]_vars

\* C5: the worker does not reset the slot of a command list that the
\* consumer holds and has not yet submitted.
C5_NoResetWhileHeld ==
    [][WorkerResets =>
          (main.held = NoList \/ main.held.slot # GetBatch(worker'.currentIndex))]_vars

\* C6: the k-th successful GetExecutableCommandListIfAny returned slot
\* (k-1) mod BATCH_COUNT with fence value k, the fence value of every task
\* recorded in batch k-1, and the read index counts the successful calls.
C6_KthCallReturnsKthBatch ==
    /\ m_currentReadIndex = Len(returned)
    /\ \A k \in 1..Len(returned) :
          /\ returned[k].slot = (k - 1) % BATCH_COUNT
          /\ returned[k].fence = k
          /\ \A t \in Tasks :
                task[t].batch = k - 1 => task[t].m_fenceValue = returned[k].fence

\* C7: a task is executed at most once and finalized at most once, only
\* after it was executed; once Execute has returned, with or without an
\* error, the task has been put on the awaiting-finalize queue exactly
\* once, with the fence value that its batch is stamped with.
C7_ExecutedAndFinalizedOnce ==
    \A t \in Tasks :
        /\ task[t].executed <= 1
        /\ task[t].finalized <= 1
        /\ task[t].finalized = 1 => task[t].executed = 1 /\ task[t].enqueued = 1
        /\ task[t].enqueued = (IF task[t].executeResult # "none" THEN 1 ELSE 0)
        /\ Occurrences(m_tasksNeedFinalize \o m_tasksOnGpu, t) + task[t].finalized
              = task[t].enqueued
        /\ task[t].enqueued = 1 =>
              /\ task[t].m_fenceValue = task[t].batch + 1
              /\ task[t].batch < Len(closed) =>
                    closed[task[t].batch + 1] = task[t].m_fenceValue

\* A task whose Execute failed was finalized, after its batch was closed.
C7_Witness ==
    \E t \in Tasks :
        /\ task[t].executeResult = Err
        /\ task[t].finalized = 1
        /\ task[t].batch < Len(closed)

\* C8: the result of Execute is the task's result: GetError in Finalize
\* returns what Execute returned.
C8_ErrorReachesFinalize ==
    \A t \in Tasks :
        /\ task[t].executeResult # "none" => task[t].m_result = task[t].executeResult
        /\ task[t].finalized > 0 => task[t].seenError = task[t].executeResult

\* C9: a resource whose task failed in Execute is never loaded.
C9_FailedNeverLoaded ==
    \A t \in Tasks : task[t].executeResult = Err => ~m_texturesById[t].m_loaded

\* The loaded flag of resource t is only set, and only by the Finalize of
\* its task.
LoadedOnlyByFinalize(t) ==
    /\ m_texturesById[t].m_loaded => m_texturesById'[t].m_loaded
    /\ (~m_texturesById[t].m_loaded /\ m_texturesById'[t].m_loaded) =>
          task'[t].finalized = task[t].finalized + 1
    /\ m_texturesById'[t].dataWrites # m_texturesById[t].dataWrites =>
          task'[t].finalized = task[t].finalized + 1

\* The data that Finalize moved into a loaded resource stays as it is.
DataKept(t) ==
    m_texturesById[t].m_loaded =>
        /\ m_texturesById'[t].m_data = m_texturesById[t].m_data
        /\ m_texturesById'[t].dataWrites = m_texturesById[t].dataWrites

-----------------------------------------------------------------------------
(***************************************************************************)
(* Properties of the descriptor pool.                                      *)
(***************************************************************************)

\* The step is a call of Alloc, returning or throwing.
IsAlloc == m_imguiHeap' # m_imguiHeap /\ lastCall'.op \in {"alloc", "throw"}

\* The step is a call of Free.
IsFree == liveHandles' # liveHandles /\ lastCall'.op = "free"

\* C14: every live handle lies in [0, N), and Alloc never returns a handle
\* that is live, so no two live handles are equal.
C14_LiveHandlesDistinctInRange ==
    /\ [](\A h \in liveHandles : 0 <= h /\ h < m_imguiHeap.m_count)
    /\ [][(IsAlloc /\ lastCall'.op = "alloc") =>
            /\ lastCall'.handle \notin liveHandles
            /\ 0 <= lastCall'.handle
            /\ lastCall'.handle < m_imguiHeap.m_count]_vars

\* A freed handle was issued again while other handles are live.
C14_Witness ==
    /\ lastCall.op = "alloc"
    /\ lastCall.handle < m_imguiHeap.m_freeBlockStart - 1
    /\ Cardinality(liveHandles) >= 3

\* C15: on a pool of capacity N that has issued 0..k-1 and nothing else,
\* Alloc returns k as long as k < N, and fails only when k = N.
C15_FreshPoolIssuesAllN ==
    [][(IsAlloc /\ m_imguiHeap.m_freeIndices = {}
               /\ liveHandles = 0..(m_imguiHeap.m_freeBlockStart - 1)) =>
          IF m_imguiHeap.m_freeBlockStart < m_imguiHeap.m_count
          THEN lastCall'.op = "alloc"
               /\ lastCall'.handle = m_imguiHeap.m_freeBlockStart
          ELSE lastCall'.op = "throw"]_vars

\* C16: with a non-empty free set Alloc returns its smallest index and
\* leaves freeBlockStart alone; it advances freeBlockStart, by one, only
\* with an empty free set, and then what it returns is the old
\* freeBlockStart.
C16_ReissueBeforeVirgin ==
    [][IsAlloc =>
          IF m_imguiHeap.m_freeIndices # {}
          THEN /\ lastCall'.op = "alloc"
               /\ lastCall'.handle = MinOf(m_imguiHeap.m_freeIndices)
               /\ m_imguiHeap'.m_freeBlockStart = m_imguiHeap.m_freeBlockStart
               /\ m_imguiHeap'.m_freeIndices =
                      m_imguiHeap.m_freeIndices \ {lastCall'.handle}
          ELSE /\ m_imguiHeap'.m_freeBlockStart = m_imguiHeap.m_freeBlockStart + 1
               /\ m_imguiHeap'.m_freeIndices = {}
               /\ lastCall'.op = "alloc" =>
                      lastCall'.handle = m_imguiHeap.m_freeBlockStart]_vars

\* The smaller of two freed indices was reissued while never-allocated
\* indices remain.
C16_Witness ==
    /\ lastCall.op = "alloc"
    /\ m_imguiHeap.m_freeIndices # {}
    /\ lastCall.handle < MinOf(m_imguiHeap.m_freeIndices)
    /\ m_imguiHeap.m_freeBlockStart + 1 < m_imguiHeap.m_count

\* C17: after a Free of a live handle every index left in the free set is
\* below freeBlockStart - 1.
C17_CompactedAfterFree ==
    [][IsFree =>
          \A i \in m_imguiHeap'.m_freeIndices :
              i < m_imguiHeap'.m_freeBlockStart - 1]_vars

\* A Free whose compaction removed the freed handle and a lower index, and
\* left an index in the free set.
C17_Witness ==
    /\ lastCall.op = "free"
    /\ m_imguiHeap.m_freeBlockStart < lastCall.handle
    /\ m_imguiHeap.m_freeIndices # {}

\* C18: every index of [0, N) is never-issued at or above freeBlockStart,
\* or outstanding, or freed below freeBlockStart, and freeBlockStart is at
\* most N.
C18_ThreeClasses ==
    /\ m_imguiHeap.m_freeBlockStart <= m_imguiHeap.m_count
    /\ liveHandles \cap m_imguiHeap.m_freeIndices = {}
    /\ \A i \in 0..(m_imguiHeap.m_count - 1) :
          IF i >= m_imguiHeap.m_freeBlockStart
          THEN i \notin liveHandles /\ i \notin m_imguiHeap.m_freeIndices
          ELSE i \in liveHandles \/ i \in m_imguiHeap.m_freeIndices

-----------------------------------------------------------------------------
(***************************************************************************)
(* Properties of Stop.                                                     *)
(***************************************************************************)

\* The main thread is inside a call of Stop.
InStop == main.pc \in {"stopKick", "stopNotify", "stopJoinable", "joining"}

\* C11: a call of Stop that has set the exit flag returns, with the worker
\* out of its loop and joined, wherever the worker was when the flag was
\* set.
C11_StopAlwaysReturns ==
    InStop ~> (main.pc = "idle" /\ worker.pc = "exited" /\ ~main.joinable)

\* Stop notifies while the worker is blocked in the wait.
C11_Witness ==
    /\ main.pc = "stopNotify"
    /\ worker.pc = "blocked"
    /\ m_shouldExit

\* C12: a call of Stop on a joined uploader never waits, neither for the
\* mutex nor for the thread, and while it runs the read index, the write
\* index, the batches and the three task queues stay as they are.
C12_SecondStopChangesNothing ==
    /\ [](~main.joinable =>
            /\ main.pc # "joining"
            /\ main.pc = "stopKick" => m_taskMutex = "free")
    /\ [][(~main.joinable /\ (InStop \/ InStop')) =>
            UNCHANGED <<m_currentReadIndex, m_currentWriteIndex, m_batches,
                        m_taskQueue, m_tasksNeedFinalize, m_tasksOnGpu,
                        m_shouldExit, worker>>]_vars

\* The second call of Stop has returned, with tasks left in the queues.
C12_Witness ==
    /\ stops = 2
    /\ main.pc = "idle"
    /\ m_taskQueue # <<>>
    /\ m_tasksNeedFinalize # <<>>

\* C13 as stated: a task that is in the submission queue when Stop sets the
\* exit flag is never executed and never finalized; an Execute that is
\* running is left to return.
C13_QueuedAtStopNeverExecuted ==
    /\ [](\A t \in queuedAtStop : task[t].executed = 0 /\ task[t].finalized = 0)
    /\ [][\A t \in Tasks : task[t].state = "executing" =>
                task'[t].state \in {"executing", "executed"}]_vars

\* C13 amended: of the tasks that are in the submission queue when Stop
\* sets the exit flag, at most one is still executed, and none is finalized
\* that was not executed; no task is dequeued once the worker has seen the
\* flag, and a running Execute is left to return.
C13_AtMostOneExecutedAfterStop ==
    /\ [](/\ Cardinality({t \in queuedAtStop : task[t].executed > 0}) <= 1
          /\ \A t \in queuedAtStop : task[t].finalized <= task[t].executed)
    /\ [][(m_shouldExit /\ worker.pc \in {"top", "close", "exited"}) =>
             /\ IsPrefix(m_taskQueue, m_taskQueue')
             /\ executeOrder' = executeOrder]_vars
    /\ [][\A t \in Tasks : task[t].state = "executing" =>
                task'[t].state \in {"executing", "executed"}]_vars

\* Stop has returned; a task queued at the flag store was executed and
\* finalized, another was abandoned in the queue.
C13_Witness ==
    /\ stops >= 1
    /\ \E t, u \in queuedAtStop :
          /\ task[t].finalized = 1
          /\ task[u].state = "queued"

-----------------------------------------------------------------------------
(***************************************************************************)
(* Properties of the texture manager's descriptor handles.                 *)
(***************************************************************************)

\* The elements of a sequence.
Range(q) == {q[i] : i \in 1..Len(q)}

\* The handles the pool p has issued and not taken back.
Issued(p) == (0..(p.m_freeBlockStart - 1)) \ p.m_freeIndices

\* The step is a frame that reaches RegenerateSRVs: the loop over the pending
\* textures completes and the sizer reports a new size.
IsRebuild ==
    /\ frames' = frames + 1
    /\ ~TransitionLoop(m_texturesToTransition, m_texturesById,
                       m_srvDescriptorPool).thrown
    /\ GetNextSize(m_sizer, Cardinality({t \in Tasks : m_texturesById[t].exists})).size
          # None

\* C19: an uploaded texture that is pending in a frame and has no handle
\* after it is still pending after it.
C19_NoHandleStaysPending ==
    [][(frames' = frames + 1 /\ ~crashed') =>
          \A t \in Range(m_texturesToTransition) :
              (m_texturesById[t].m_data = "uploaded"
                 /\ m_texturesById'[t].m_handle = None) =>
                    t \in Range(m_texturesToTransition')]_vars

\* C20: after a frame that rebuilds the pool every texture of the map that
\* has uploaded data holds a handle issued by the new pool, below its size,
\* and no two of them hold the same handle.
C20_RebuildReassignsEveryHandle ==
    [][IsRebuild =>
          \A t \in Tasks :
              (m_texturesById'[t].exists /\ m_texturesById'[t].m_data = "uploaded") =>
                 /\ m_texturesById'[t].m_handle \in Issued(m_srvDescriptorPool')
                 /\ m_texturesById'[t].m_handle < m_sizer'.m_currentSize
                 /\ \A u \in Tasks :
                       (u # t /\ m_texturesById'[u].exists
                              /\ m_texturesById'[u].m_data = "uploaded") =>
                          m_texturesById'[u].m_handle # m_texturesById'[t].m_handle]_vars

-----------------------------------------------------------------------------
(***************************************************************************)
(* Properties of the Sizer.                                                *)
(***************************************************************************)

\* C21: the committed size of a Sizer reset to kMinPoolSize never drops
\* below kMinPoolSize, whatever sizes are requested.
C21_SizeNeverBelowFloor == sizerState.m_currentSize >= kMinPoolSize

\* C22: of two consecutive GetNextSize calls whose requested sizes differ by
\* at most one, the second reports no resize when the first reported one.
C22_NoResizeOnConsecutiveCalls ==
    [][(/\ sizerCall'.calls = sizerCall.calls + 1
        /\ sizerCall.size # None
        /\ sizerCall'.requested - sizerCall.requested \in {-1, 0, 1})
          => sizerCall'.size = None]_vars

-----------------------------------------------------------------------------
(***************************************************************************)
(* Properties of the entity tree.                                          *)
(***************************************************************************)

\* The entities of the map.
Existing(ents) == {e \in Entities : ents[e].exists}

\* The entities met on the way from e up the m_parent links, e excluded, in
\* at most n steps.
RECURSIVE AncestorsWithin(_, _, _)
AncestorsWithin(ents, e, n) ==
    IF n = 0 \/ ~Has(ents, e) \/ ents[e].m_parent = kNullEntity THEN {}
    ELSE {ents[e].m_parent} \union AncestorsWithin(ents, ents[e].m_parent, n - 1)

Ancestors(ents, e) == AncestorsWithin(ents, e, MaxEntities + 1)

\* The entities below e.
Descendants(ents, e) == {d \in Existing(ents) : e \in Ancestors(ents, d)}

\* What GetChildren(parent) yields: m_firstChild, then m_nextSibling links,
\* followed for at most n steps.
RECURSIVE SiblingsFrom(_, _, _)
SiblingsFrom(ents, e, n) ==
    IF n = 0 \/ e = kNullEntity \/ ~Has(ents, e) THEN <<>>
    ELSE <<e>> \o SiblingsFrom(ents, ents[e].m_nextSibling, n - 1)

GetChildren(ents, parent) ==
    SiblingsFrom(ents, ents[parent].m_firstChild, MaxEntities + 1)

\* Every entity's ancestor chain ends at the root.
AllReachRoot(ents) ==
    \A e \in Existing(ents) : e = kRoot \/ kRoot \in Ancestors(ents, e)

\* C23: a SetParent call whose new parent is the entity itself or one of its
\* descendants changes no link of any entity and publishes no signal, and
\* every ancestor chain still ends at the root.
C23_CircularSetParentChangesNothing ==
    [][(/\ treeCall'.op = "SetParent"
        /\ Has(m_entities, treeCall'.entity)
        /\ treeCall'.parent \in
              {treeCall'.entity} \union Descendants(m_entities, treeCall'.entity))
          => /\ m_entities' = m_entities
             /\ treeCall'.signals = <<>>
             /\ AllReachRoot(m_entities')]_vars

\* A SetParent call onto a descendant two levels below has been made.
C23_Witness ==
    /\ treeCall.op = "SetParent"
    /\ ~treeCall.thrown
    /\ Has(m_entities, treeCall.entity)
    /\ treeCall.parent \in Descendants(m_entities, treeCall.entity)
    /\ m_entities[treeCall.parent].m_parent # treeCall.entity

\* C24: RemoveEntity of an entity other than the root deletes the entity and
\* its descendants and nothing else, and the children of its parent are
\* afterwards the former children without the entity, in the same order.
C24_RemoveDeletesSubtreeOnly ==
    [][(/\ treeCall'.op = "RemoveEntity"
        /\ treeCall'.entity # kRoot
        /\ Has(m_entities, treeCall'.entity))
          => LET e == treeCall'.entity
                 p == m_entities[e].m_parent
             IN  /\ Existing(m_entities') =
                       Existing(m_entities) \ ({e} \union Descendants(m_entities, e))
                 /\ GetChildren(m_entities', p) =
                       SelectSeq(GetChildren(m_entities, p), LAMBDA c : c # e)
                 /\ \A i, j \in 1..Len(GetChildren(m_entities', p)) :
                       GetChildren(m_entities', p)[i] = GetChildren(m_entities', p)[j]
                          => i = j]_vars

\* An entity with a descendant has been removed from a parent that keeps
\* another child.
C24_Witness ==
    /\ treeCall.op = "RemoveEntity"
    /\ ~treeCall.thrown
    /\ Len(treeCall.signals) >= 2
    /\ \E p \in Existing(m_entities) : Len(GetChildren(m_entities, p)) >= 1

-----------------------------------------------------------------------------
(***************************************************************************)
(* Properties of the batch rollover and of the flow between worker,        *)
(* consumer and FetchAndFinalizeTasks.                                     *)
(***************************************************************************)

\* The fence value stored on the ring slot after the worker's batch.
NextSlotFence == m_batches[GetBatch(worker.currentIndex + 1)].m_fenceValue

\* The worker takes its rollover decision in this step.
IsDecision == worker.pc = "decide" /\ worker'.pc # "decide"

\* C25: the worker closes its batch after a task exactly when the read
\* index has caught up with the index of the batch and the next ring slot
\* carries no fence value or one the device has reached.
C25_RolloverExactlyWhen ==
    [][IsDecision =>
          ((worker'.pc = "close") <=>
              (/\ m_currentReadIndex >= worker.currentIndex
               /\ (NextSlotFence = None \/ NextSlotFence <= completedValue)))]_vars

\* C26: while Stop has not been requested a submitted task is eventually
\* executed, with only the worker and the submitting call scheduled.
C26_SubmittedEventuallyExecuted ==
    \A t \in RunTasks :
        (task[t].state = "queued") ~> (task[t].executed > 0 \/ m_shouldExit)

\* A step of FetchAndFinalizeTasks, with the value it returns.
IsFetch ==
    \/ fetchReturn' # fetchReturn
    \/ m_tasksOnGpu' # m_tasksOnGpu
    \/ finalizeOrder' # finalizeOrder

\* The tasks stamped with the fence value of a batch that was returned.
StampedReturned(tasks, lists) ==
    {t \in Tasks : \E i \in 1..Len(lists) :
        tasks[t].m_fenceValue # None /\ tasks[t].m_fenceValue = lists[i].fence}

\* C27: every task stamped with the fence value of a returned batch has been
\* put on the awaiting-finalize queue, and a FetchAndFinalizeTasks call
\* that returns 0 leaves none of them unfinalized.
C27_ReturnedBatchTasksEnqueued ==
    [][/\ \A t \in StampedReturned(task', returned') : task'[t].enqueued > 0
       /\ (IsFetch /\ fetchReturn' = 0) =>
             \A t \in StampedReturned(task', returned') : task'[t].finalized > 0]_vars

\* FetchAndFinalizeTasks has returned 0 after a batch with two tasks was
\* returned and finalized.
C27_Witness ==
    /\ fetchReturn = 0
    /\ \E t, u \in StampedReturned(task, returned) :
          t # u /\ task[t].m_fenceValue = task[u].m_fenceValue
                /\ task[t].finalized > 0 /\ task[u].finalized > 0

\* The tasks that were executed and enqueued and are not finalized.
AwaitingFinalize(tasks) ==
    {t \in Tasks : tasks[t].enqueued > 0 /\ tasks[t].finalized = 0}

C29_AtMostOneClosedBatchAwaiting ==
    ~m_shouldExit =>
        /\ m_currentReadIndex <= m_currentWriteIndex
        /\ m_currentWriteIndex <= m_currentReadIndex + 1

\* The second batch is closed and not yet picked up.
C29_Witness ==
    /\ ~m_shouldExit
    /\ m_currentWriteIndex = 2
    /\ m_currentReadIndex = 1

\* C30: when the worker takes its rollover decision the next ring slot
\* carries no fence value or one that is not below the completed value.
C30_NextSlotFenceNotBelowCompleted ==
    worker.pc = "decide" => (NextSlotFence = None \/ NextSlotFence >= completedValue)

\* The decision is taken with the next slot's fence value just reached.
C30_Witness ==
    /\ worker.pc = "decide"
    /\ NextSlotFence # None
    /\ NextSlotFence = completedValue

\* The tasks executed into the batch stamped with fence value f.
TasksOfBatch(tasks, f) ==
    {t \in AllTasks : tasks[t].executed > 0 /\ tasks[t].m_fenceValue = f}

\* C31: a batch the worker closes while Stop has not been requested holds
\* at least one executed task.
C31_ClosedBatchNotEmptyBeforeStop ==
    [][(Len(closed') > Len(closed) /\ ~m_shouldExit) =>
          TasksOfBatch(task', closed'[Len(closed')]) # {}]_vars

\* Two batches have been closed and Stop has not been requested.
C31_Witness ==
    /\ Len(closed) >= 2
    /\ ~m_shouldExit

\* A successful call of GetExecutableCommandListIfAny has returned the batch
\* with fence value f.
WasReturned(f) ==
    \E i \in 1..Len(returned) :
        returned[i].slot \in Slots /\ returned[i].fence = f

\* A later call of GetExecutableCommandListIfAny reads the batch with fence
\* value f: one of the read indices still to come finds it in m_batches.
Returnable(f) ==
    \E k \in m_currentReadIndex..(m_currentWriteIndex - 1) :
        ReadSlot(k) \in Slots /\ m_batches[ReadSlot(k)].m_fenceValue = f

\* When Stop has returned no batch is open and every executed task carries
\* the fence value of a closed batch.
StopClosesOpenBatch ==
    stops > 0 =>
        /\ \A s \in Slots : ~m_batches[s].open
        /\ \A t \in Tasks : task[t].executed > 0 =>
               \E i \in 1..Len(closed) : closed[i] = task[t].m_fenceValue

\* C32: when Stop has returned the open batch is closed and stamped, and
\* every executed task belongs to a batch that was returned or that
\* GetExecutableCommandListIfAny can still return.
C32_ExecutedTasksStayReturnable ==
    /\ StopClosesOpenBatch
    /\ stops > 0 =>
          \A t \in Tasks : task[t].executed > 0 =>
              WasReturned(task[t].m_fenceValue) \/ Returnable(task[t].m_fenceValue)

\* C33: a call of Alloc that throws leaves freeBlockStart and the free set
\* as it found them.
C33_FailedAllocChangesNothing ==
    [][lastCall'.op = "throw" => m_imguiHeap' = m_imguiHeap]_vars

\* The step frees the handle the call before it allocated.
IsFreeOfLastAlloc ==
    /\ lastCall.op = "alloc"
    /\ lastCall'.op = "free"
    /\ lastCall'.handle = lastCall.handle

\* C34: a Free of the handle the Alloc before it returned leaves
\* freeBlockStart and the free set as they were before that Alloc.
C34_AllocThenFreeRestores ==
    [][IsFreeOfLastAlloc => m_imguiHeap' = poolBefore]_vars

\* The handle just allocated from the free set was freed again while a
\* higher handle is live and another index is in the free set.
C34_Witness ==
    /\ lastCall.op = "free"
    /\ lastCall.handle \in m_imguiHeap.m_freeIndices
    /\ poolBefore.m_freeIndices = m_imguiHeap.m_freeIndices \ {lastCall.handle}
    /\ Cardinality(m_imguiHeap.m_freeIndices) >= 2
    /\ \E h \in liveHandles : h > lastCall.handle

\* C35: when no allocated handle is live the pool is as it was created:
\* freeBlockStart is 0 and the free set is empty.
C35_AllFreedIsInitial ==
    liveHandles = {} =>
        /\ m_imguiHeap.m_freeBlockStart = 0
        /\ m_imguiHeap.m_freeIndices = {}

\* The step is a call of GetNextSize that takes the grow branch.
IsGrow ==
    /\ sizerCall'.calls = sizerCall.calls + 1
    /\ sizerCall'.requested >= sizerState.m_currentSize

\* C36: the size a growing call of GetNextSize commits is greater than the
\* size that was requested.
C36_GrowthExceedsRequest ==
    [][IsGrow => sizerCall'.size > sizerCall'.requested]_vars

\* The entities whose m_parent is p.
ChildrenByParent(ents, p) == {e \in Existing(ents) : ents[e].m_parent = p}

\* The chain of p's children visits exactly the entities whose parent is p,
\* each once, and m_lastChild is its last element.
ChildChainMatches(ents, p) ==
    LET chain == GetChildren(ents, p)
    IN  /\ Range(chain) = ChildrenByParent(ents, p)
        /\ Len(chain) = Cardinality(ChildrenByParent(ents, p))
        /\ ents[p].m_lastChild =
               IF chain = <<>> THEN kNullEntity ELSE chain[Len(chain)]

\* m_previousSibling is the inverse of m_nextSibling, and the first child
\* of an entity has no previous sibling.
SiblingLinksInverse(ents) ==
    \A e \in Existing(ents) :
        /\ ents[e].m_nextSibling # kNullEntity =>
               /\ Has(ents, ents[e].m_nextSibling)
               /\ ents[ents[e].m_nextSibling].m_previousSibling = e
        /\ ents[e].m_previousSibling # kNullEntity =>
               /\ Has(ents, ents[e].m_previousSibling)
               /\ ents[ents[e].m_previousSibling].m_nextSibling = e
        /\ ents[e].m_firstChild # kNullEntity =>
               /\ Has(ents, ents[e].m_firstChild)
               /\ ents[ents[e].m_firstChild].m_previousSibling = kNullEntity

\* C37: after any sequence of CreateEntity, SetParent and RemoveEntity the
\* tree is well formed: child chains match the parent links, the sibling
\* links are inverse to each other, m_lastChild ends the chain, and every
\* parent chain reaches the root without a cycle.
C37_TreeWellFormed ==
    /\ \A p \in Existing(m_entities) : ChildChainMatches(m_entities, p)
    /\ SiblingLinksInverse(m_entities)
    /\ AllReachRoot(m_entities)
    /\ \A e \in Existing(m_entities) : e \notin Ancestors(m_entities, e)

\* An entity was moved under the parent it already had, which has another
\* child before it.
C37_Witness ==
    /\ treeCall.op = "SetParent"
    /\ ~treeCall.thrown
    /\ Has(m_entities, treeCall.entity)
    /\ m_entities[treeCall.entity].m_parent = treeCall.parent
    /\ Len(GetChildren(m_entities, treeCall.parent)) >= 2

\* The locks that release their batch when they are destroyed.
LiveLocks == {l \in 1..MaxLocks : locks[l].alive /\ locks[l].m_resources}

\* C38: GetExecutableCommandListIfAny of GpuUploaderResources hands every
\* closed batch out at most once, and the read index counts the obtained
\* locks that have been released.
C38_BatchHandedOutOnce ==
    /\ [][Len(obtained') > Len(obtained) =>
            \A i \in 1..Len(obtained) : obtained[i] # obtained'[Len(obtained')]]_vars
    /\ [](resources.m_currentReadIndex + Cardinality(LiveLocks) = Len(obtained))
====
